---- MODULE Spec2Model ----
(***************************************************************************)
(* Eye-tracking controller: control loop, packet codec, serial link,       *)
(* shutdown and MJPEG frame buffer.                                        *)
(*                                                                         *)
(* Modelled from src/serial_output_camera_http_server.py                   *)
(* (UnifiedEyeTrackingController, CameraStreamHandler); the same codec,    *)
(* send and cleanup code is repeated in src/arduino_pwm_serial_output.py   *)
(* and src/camera_http_server.py.                                          *)
(*                                                                         *)
(* A packet is a sequence of one-character strings.  A frame is identified *)
(* by the number of the loop iteration that produced it; NoFrame is None.  *)
(* An eye sample is <<x, y>>, or <<>> for (None, None).                    *)
(***************************************************************************)
EXTENDS Integers, Sequences, FiniteSets, TLC

VARIABLES
    pc,                      \* position of the main thread
    loop_count,              \* run: loop_count
    eye,                     \* run: (eye_x, eye_y)
    sampleKind,              \* how get_eye_location ended in this iteration
    packet,                  \* run: packet
    deadzone_pixels,         \* self.deadzone_pixels
    arduino,                 \* self.arduino: "none" | "open" | "closed"
    lastWrite,               \* the bytes of the latest serial write
    sendEntry,               \* link state when the current send was entered
    sendLog,                 \* the serial calls of the current send, with their outcomes
    reconnectFailed,         \* a reconnect attempt has failed (history)
    last_frame,              \* eye_model.last_frame
    annotated_frame,         \* run: annotated_frame
    latest_annotated_frame,  \* self.latest_annotated_frame
    frame_lock,              \* self.frame_lock: "free" | "loop" | "handler"
    hpc,                     \* position of each stream handler
    hframe,                  \* each stream handler's local frame copy
    cleanup_called,          \* self._cleanup_called
    cleanup_lock,            \* self._cleanup_lock is held
    caller,                  \* who called the running cleanup: "run" | "handler" | "main"
    eye_model,               \* self.eye_model is not None
    closeAttempt,            \* cleanup step 3: attempt
    signals,                 \* signals delivered so far
    shutdownCause,           \* what started the shutdown
    linkOpenAtShutdown,      \* the link was open when the shutdown started
    neutralAttempted,        \* cleanup issued its write of the neutral packet
    linkClosed,              \* the serial port has been closed for good
    active_eye,              \* eye_model.active_eye: "left" | "right"
    last_visibility_check,   \* eye_model.last_visibility_check, in ticks
    now,                     \* the clock: what time.time() returns, in ticks
    lm,                      \* get_eye_location: the landmarks of the latest frame
    pixels,                  \* the content of each annotated frame array
    hpixels,                 \* the content of each stream handler's local copy
    published,               \* the frames stored into the slot so far (history)
    cleanupCount,            \* how often cleanup ran its body, wrote the neutral
                             \* packet and closed the link (history)
    wifi_enabled,            \* self.wifi_enabled
    plotter_enabled,         \* self.plotter_enabled
    last_status_check,       \* run: last_status_check, in ticks
    pollLog,                 \* the clock readings at which run polled (history)
    current_time,            \* run: current_time, in ticks
    pollOutcome,             \* how the latest poll request ended (history)
    serving,                 \* http_server.serve_forever is running
    exit_status,             \* the exit status of the process; Running until it ends
    startup,                 \* UnifiedEyeTrackingController.__init__: "pending" | "ok" | "failed"
    status_reply,            \* the body of the latest /status response
    portOpenFailed,          \* __init__: serial.Serial(...) raised (history)
    switchLog,               \* the clock readings at which active_eye changed (history)
    running,                 \* CameraStreamServer.running
    cpc,                     \* position of the capture thread in _capture_loop
    frame_count,             \* _capture_loop: frame_count
    consecutive_errors,      \* _capture_loop: consecutive_errors
    errorRun,                \* errors since the latest successful get_eye_location (history)
    stopCause                \* why _capture_loop left its while loop (history)

vars == <<pc, loop_count, eye, sampleKind, packet, deadzone_pixels, arduino,
          lastWrite, sendEntry, sendLog, reconnectFailed, last_frame, annotated_frame,
          latest_annotated_frame, frame_lock, hpc, hframe, cleanup_called,
          cleanup_lock, caller, eye_model, closeAttempt, signals, shutdownCause,
          linkOpenAtShutdown, neutralAttempted, linkClosed, active_eye,
          last_visibility_check, now, lm, pixels, hpixels, published,
          cleanupCount, wifi_enabled, plotter_enabled, last_status_check, pollLog,
          serving, exit_status, startup, status_reply, portOpenFailed, current_time,
          pollOutcome, switchLog, running, cpc, frame_count, consecutive_errors,
          errorRun, stopCause>>

selectorVars == <<active_eye, last_visibility_check, now, lm, switchLog>>
captureVars == <<running, cpc, frame_count, consecutive_errors, errorRun, stopCause>>
remoteVars == <<wifi_enabled, plotter_enabled, last_status_check, pollLog, current_time,
                pollOutcome>>
exitVars == <<serving, exit_status>>
hostVars == <<startup, status_reply, portOpenFailed>>
pixelVars == <<pixels, hpixels, published>>
linkVars == <<arduino, lastWrite, sendEntry, sendLog, reconnectFailed>>
frameVars == <<last_frame, annotated_frame, latest_annotated_frame, frame_lock>>
streamVars == <<hpc, hframe>>
cleanupVars == <<cleanup_called, cleanup_lock, caller, eye_model, closeAttempt, signals,
                 shutdownCause, linkOpenAtShutdown, neutralAttempted, linkClosed,
                 cleanupCount>>
sampleVars == <<eye, sampleKind, packet>>

----------------------------------------------------------------------------
(* Program constants *)

FRAME_WIDTH == 640
FRAME_HEIGHT == 480
REFERENCE_OFFSET_PIXELS == 220
DEADZONE_DEFAULT == 10
CLOSE_ATTEMPTS == 3
NoFrame == 0
visibility_check_interval == 1

(* Bounds of the model *)

MaxIter == 3
MaxSignals == 2
NumHandlers == 2
TicksPerSecond == 2
MaxTime == 8

Handlers == 1..NumHandlers

\* A frame array is held as its two halves; each half carries the number of
\* the iteration whose image and overlay it shows.  Blank is an array nobody
\* has written yet.
FrameIds == 1..MaxIter
Blank == <<0, 0>>
Composed(k) == <<k, k>>

----------------------------------------------------------------------------
(* PacketCodec: _calculate_directional_packet *)

Abs(n) == IF n < 0 THEN 0 - n ELSE n

DigitChar(d) == <<"0", "1", "2", "3", "4", "5", "6", "7", "8", "9">>[d + 1]

RECURSIVE Digits(_)
\* str(n) for n >= 0
Digits(n) == IF n < 10 THEN <<DigitChar(n)>>
             ELSE Append(Digits(n \div 10), DigitChar(n % 10))

RECURSIVE ZeroPad(_, _)
\* pad on the left with "0" up to width w; longer sequences are left as they are
ZeroPad(s, w) == IF Len(s) >= w THEN s ELSE ZeroPad(<<"0">> \o s, w)

\* a formatter that does not pad: f"{n:d}"
Fmt03d_NoPad(n) == Digits(n)

\* a formatter that keeps the last three digits
Fmt03d_Last3(n) == ZeroPad(Digits(n % 1000), 3)

\* f"{n:03d}"
Fmt03d(n) == ZeroPad(Digits(n), 3)

ReferenceX == FRAME_WIDTH \div 2
ReferenceY == FRAME_HEIGHT \div 2 - REFERENCE_OFFSET_PIXELS

\* a deadzone that leaves its rim out: distance < r
InDeadzone_Strict(dx, dy, r) == r >= 0 /\ dx * dx + dy * dy < r * r

\* distance = (dx**2 + dy**2) ** 0.5; distance <= r.  For the integers of the
\* model the float comparison agrees with the exact one on the squares.
InDeadzone(dx, dy, r) == r >= 0 /\ dx * dx + dy * dy <= r * r

\* a vertical letter that sends a zero offset down: dy < 0
DirV_Strict(dy) == IF dy < 0 THEN "U" ELSE "D"

DirV(dy) == IF dy <= 0 THEN "U" ELSE "D"
DirH(dx) == IF dx <= 0 THEN "L" ELSE "R"

InZonePacket == <<"U", "0", "0", "0", "L", "0", "0", "0">>
NeutralPacket == <<"N", "0", "0", "0", "N", "0", "0", "0">>

EncodeDirectional(dx, dy) ==
    <<DirV(dy)>> \o Fmt03d(Abs(dy)) \o <<DirH(dx)>> \o Fmt03d(Abs(dx))

CalculateDirectionalPacket(eye_x, eye_y, r) ==
    LET dx == eye_x - ReferenceX
        dy == eye_y - ReferenceY
    IN  IF InDeadzone(dx, dy, r) THEN InZonePacket ELSE EncodeDirectional(dx, dy)

\* a loop that answers an absent sample with the in-zone packet
IterationPacket_InZone(e, r) ==
    IF e # <<>> THEN CalculateDirectionalPacket(e[1], e[2], r) ELSE InZonePacket

\* run: the packet of one iteration
IterationPacket(e, r) ==
    IF e # <<>> THEN CalculateDirectionalPacket(e[1], e[2], r) ELSE NeutralPacket

----------------------------------------------------------------------------
(* Inputs *)

\* Offsets from the reference point that the sampled eye positions realise.
SampleDeltas == {<<0, 0>>, <<0, 5>>, <<10, 0>>, <<6, 8>>, <<11, 0>>, <<10, 1>>,
                 <<0 - 6, 0 - 8>>, <<0 - 11, 0>>, <<180, 0 - 140>>, <<0, 80>>,
                 <<0 - 75, 0>>, <<0 - 320, 460>>, <<7, 0 - 8>>}

Positions == {<<ReferenceX + d[1], ReferenceY + d[2]>> : d \in SampleDeltas}

SmallPositions == {<<ReferenceX + 180, ReferenceY - 140>>}

\* The ways get_eye_location can end, and the two of them that differ for the
\* frame buffer: no new frame is stored, a new frame is stored.
SampleKinds == {"raise", "nocap", "noface", "hidden", "pos"}
StreamKinds == {"nocap", "pos"}

LoopPcs == {"top", "sample", "calc", "send", "reconnect", "reopen", "frame",
            "publish", "store", "display"}
SendPcs == {"send", "reconnect", "reopen"}
CleanupPcs == {"c_lock", "c_flag", "c_neutral", "c_eye", "c_close", "c_final"}

\* The re-check interval in ticks, and the clock when the program starts: the
\* epoch time is far more than one interval after 0.
CheckIntervalTicks == visibility_check_interval * TicksPerSecond
Epoch == CheckIntervalTicks

\* res.multi_face_landmarks of one frame: is there a face, is the iris centre of
\* each eye usable (_is_eye_visible), and where is each eye.
NoFace == [face |-> FALSE, left_visible |-> FALSE, right_visible |-> FALSE,
           left |-> <<0, 0>>, right |-> <<0, 0>>]

EyePairs == {<<<<ReferenceX - 40, ReferenceY + 100>>, <<ReferenceX + 45, ReferenceY + 98>>>>,
             <<<<ReferenceX - 3, ReferenceY + 4>>, <<ReferenceX + 80, ReferenceY>>>>}

Landmarks == {[face |-> TRUE, left_visible |-> l, right_visible |-> r,
               left |-> pq[1], right |-> pq[2]] : l \in BOOLEAN, r \in BOOLEAN,
                                                  pq \in EyePairs}

\* exit_status while the process runs, and status_reply before any request
Running == 0 - 1
NoReply == [sent |-> FALSE, arduino_serial |-> FALSE, arduino_wifi |-> FALSE,
            camera |-> FALSE, plotter_enabled |-> FALSE]

----------------------------------------------------------------------------
(* State after __init__ (and after main has started the HTTP server) *)

InitBase ==
    /\ sampleKind = "none"
    /\ lastWrite = <<>>
    /\ sendEntry = "-"
    /\ sendLog = <<>>
    /\ reconnectFailed = FALSE
    /\ last_frame = NoFrame
    /\ annotated_frame = NoFrame
    /\ latest_annotated_frame = NoFrame
    /\ frame_lock = "free"
    /\ hpc = [h \in Handlers |-> "idle"]
    /\ hframe = [h \in Handlers |-> NoFrame]
    /\ cleanup_called = FALSE
    /\ cleanup_lock = FALSE
    /\ caller = "-"
    /\ closeAttempt = 0
    /\ signals = 0
    /\ shutdownCause = "none"
    /\ linkOpenAtShutdown = FALSE
    /\ neutralAttempted = FALSE
    /\ linkClosed = FALSE
    /\ active_eye = "left"
    /\ last_visibility_check = 0
    /\ switchLog = <<>>
    /\ running = TRUE
    /\ cpc = "top"
    /\ frame_count = 0
    /\ consecutive_errors = 0
    /\ errorRun = 0
    /\ stopCause = "none"
    /\ lm = NoFace
    /\ pixels = [k \in FrameIds |-> Blank]
    /\ hpixels = [h \in Handlers |-> Blank]
    /\ published = {}
    /\ cleanupCount = [body |-> 0, neutral |-> 0, close |-> 0]
    /\ pollLog = <<>>
    /\ exit_status = Running
    /\ status_reply = NoReply
    /\ last_status_check = 0
    /\ current_time = 0
    /\ pollOutcome = "none"
    /\ portOpenFailed = FALSE

\* the peer was not reachable when __init__ asked for its status
RemoteOff ==
    /\ wifi_enabled = FALSE
    /\ plotter_enabled = FALSE

InitCommon ==
    /\ InitBase
    /\ loop_count = 0
    /\ now = Epoch
    /\ RemoteOff
    /\ eye_model = TRUE
    /\ serving = TRUE
    /\ startup = "ok"

\* __init__: serial.Serial(...) succeeded, or failed / no port was given
Init ==
    /\ InitCommon
    /\ pc = "top"
    /\ eye = <<>>
    /\ packet = <<>>
    /\ deadzone_pixels = DEADZONE_DEFAULT
    /\ arduino \in {"open", "none"}

----------------------------------------------------------------------------
(* run: one iteration of the control loop *)

\* while True: loop_count += 1
LoopTop ==
    /\ pc = "top"
    /\ loop_count < MaxIter
    /\ loop_count' = loop_count + 1
    /\ pc' = "sample"
    /\ sendEntry' = "-"
    /\ sendLog' = <<>>
    /\ UNCHANGED <<captureVars, remoteVars, exitVars, hostVars, selectorVars, pixelVars, sampleVars, deadzone_pixels, arduino, lastWrite, reconnectFailed,
                   frameVars, streamVars, cleanupVars>>

\* eye_model.get_eye_location and the try/except around it.  "raise": the call
\* raised; "nocap": no camera or a failed read (the stored frame is kept);
\* "noface": no face in the frame; "hidden": the active eye is not visible;
\* "pos": a position of the active eye.
GetEyeLocation(K, P) ==
    /\ pc = "sample"
    /\ \E k \in K :
          /\ sampleKind' = k
          /\ IF k = "pos" THEN \E p \in P : eye' = p ELSE eye' = <<>>
          /\ last_frame' = IF k \in {"raise", "nocap"} THEN last_frame ELSE loop_count
    /\ pc' = "calc"
    /\ UNCHANGED <<captureVars, remoteVars, exitVars, hostVars, selectorVars, pixelVars, loop_count, packet, deadzone_pixels, linkVars, annotated_frame,
                   latest_annotated_frame, frame_lock, streamVars, cleanupVars>>

\* if eye_x is not None and eye_y is not None: packet = ... else: packet = "N000N000"
CalcPacket ==
    /\ pc = "calc"
    /\ packet' = IterationPacket(eye, deadzone_pixels)
    /\ pc' = "send"
    /\ UNCHANGED <<captureVars, remoteVars, exitVars, hostVars, selectorVars, pixelVars, loop_count, eye, sampleKind, deadzone_pixels, linkVars, frameVars,
                   streamVars, cleanupVars>>

----------------------------------------------------------------------------
(* EyeDetectionModel.get_eye_location: the eye selector *)

OtherEye(e) == IF e = "left" THEN "right" ELSE "left"

\* _is_eye_visible(lm, e)
IsEyeVisible(f, e) == IF e = "left" THEN f.left_visible ELSE f.right_visible

\* ex, ey of eye e
EyeCentre(f, e) == IF e = "left" THEN f.left ELSE f.right

\* a re-check that is due in every frame
RecheckDue_Always(t, last) == TRUE

\* a re-check that is due after half the interval
RecheckDue_HalfInterval(t, last) == 2 * (t - last) >= CheckIntervalTicks

\* current_time - self.last_visibility_check >= self.visibility_check_interval
RecheckDue(t, last) == t - last >= CheckIntervalTicks

\* a selector that follows whichever eye is visible, the other one first
Reevaluate_Eager(active, f) ==
    IF IsEyeVisible(f, OtherEye(active)) THEN OtherEye(active) ELSE active

\* a selector that leaves the active eye as soon as it is not visible
Reevaluate_Blind(active, f) ==
    IF IsEyeVisible(f, active) THEN active ELSE OtherEye(active)

\* a selector that never leaves the eye it started with
Reevaluate_Never(active, f) == active

\* if self.active_eye == 'left': if not left_visible and right_visible: ... 'right'
\* else: if not right_visible and left_visible: ... 'left'
Reevaluate(active, f) ==
    IF active = "left"
    THEN IF ~f.left_visible /\ f.right_visible THEN "right" ELSE "left"
    ELSE IF ~f.right_visible /\ f.left_visible THEN "left" ELSE "right"

\* an output that falls back on the other eye when the active one is not visible
SelectorOutput_AnyEye(f, active) ==
    IF IsEyeVisible(f, active) THEN EyeCentre(f, active)
    ELSE IF IsEyeVisible(f, OtherEye(active)) THEN EyeCentre(f, OtherEye(active))
    ELSE <<>>

\* current_eye_visible = _is_eye_visible(lm, self.active_eye); (None, None) or ex, ey
SelectorOutput(f, active) ==
    IF IsEyeVisible(f, active) THEN EyeCentre(f, active) ELSE <<>>

\* a call that moves the time of the last re-check in a frame without a face
EyeModelGetEyeLocation_StampsWithoutFace ==
    /\ pc = "sample"
    /\ \E o \in {"nocap", "raise_read", "raise_mesh", "ok"}, f \in Landmarks \cup {NoFace} :
          /\ o # "ok" => f = NoFace
          /\ lm' = f
          /\ last_frame' = IF o \in {"nocap", "raise_read"} THEN last_frame ELSE loop_count
          /\ IF f.face
             THEN LET due == RecheckDue(now, last_visibility_check)
                      a == IF due THEN Reevaluate(active_eye, f) ELSE active_eye
                  IN  /\ active_eye' = a
                      /\ last_visibility_check' = IF due THEN now ELSE last_visibility_check
                      /\ switchLog' = IF a # active_eye THEN Append(switchLog, now)
                                      ELSE switchLog
                      /\ eye' = SelectorOutput(f, a)
                      /\ sampleKind' = IF SelectorOutput(f, a) = <<>> THEN "hidden" ELSE "pos"
             ELSE /\ eye' = <<>>
                  /\ sampleKind' = CASE o = "nocap" -> "nocap"
                                     [] o = "ok" -> "noface"
                                     [] OTHER -> "raise"
                  /\ last_visibility_check' =
                        IF RecheckDue(now, last_visibility_check) THEN now
                        ELSE last_visibility_check
                  /\ UNCHANGED <<active_eye, switchLog>>
    /\ pc' = "calc"
    /\ UNCHANGED <<captureVars, remoteVars, exitVars, hostVars, pixelVars, loop_count, packet, deadzone_pixels, linkVars, annotated_frame,
                   latest_annotated_frame, frame_lock, streamVars, cleanupVars, now>>

\* One call of get_eye_location from run, with the try/except of run around it.
\* "nocap": no camera, or the read failed; "raise_read": the read raised;
\* "raise_mesh": face_mesh.process raised, after the frame was stored; "ok".
EyeModelGetEyeLocation ==
    /\ pc = "sample"
    /\ \E o \in {"nocap", "raise_read", "raise_mesh", "ok"}, f \in Landmarks \cup {NoFace} :
          /\ o # "ok" => f = NoFace
          /\ lm' = f
          /\ last_frame' = IF o \in {"nocap", "raise_read"} THEN last_frame ELSE loop_count
          /\ IF f.face
             THEN LET due == RecheckDue(now, last_visibility_check)
                      a == IF due THEN Reevaluate(active_eye, f) ELSE active_eye
                  IN  /\ active_eye' = a
                      /\ last_visibility_check' = IF due THEN now ELSE last_visibility_check
                      /\ switchLog' = IF a # active_eye THEN Append(switchLog, now)
                                      ELSE switchLog
                      /\ eye' = SelectorOutput(f, a)
                      /\ sampleKind' = IF SelectorOutput(f, a) = <<>> THEN "hidden" ELSE "pos"
             ELSE /\ eye' = <<>>
                  /\ sampleKind' = CASE o = "nocap" -> "nocap"
                                     [] o = "ok" -> "noface"
                                     [] OTHER -> "raise"
                  /\ UNCHANGED <<active_eye, last_visibility_check, switchLog>>
    /\ pc' = "calc"
    /\ UNCHANGED <<captureVars, remoteVars, exitVars, hostVars, pixelVars, loop_count, packet, deadzone_pixels, linkVars, annotated_frame,
                   latest_annotated_frame, frame_lock, streamVars, cleanupVars, now>>

\* The caller's next call, some time later.
NextCall ==
    /\ pc \in {"top", "calc"}
    /\ now < MaxTime
    /\ \E t \in (now + 1)..MaxTime : now' = t
    /\ loop_count' = loop_count + 1
    /\ pc' = "sample"
    /\ UNCHANGED <<captureVars, remoteVars, exitVars, hostVars, pixelVars, sampleVars, deadzone_pixels, linkVars, frameVars, streamVars,
                   cleanupVars, active_eye, last_visibility_check, lm, switchLog>>

----------------------------------------------------------------------------
(* ActuatorLink: send_packet_to_arduino / send_packet *)

\* The outcomes of the try block: "ok", or the call that raised.
SendOutcomes(link) ==
    IF link = "closed" THEN {"ok", "open_fail", "write_fail", "flush_fail"}
    ELSE {"ok", "write_fail", "flush_fail"}

\* The serial calls the try block makes up to outcome o.
TryLog(link, o) ==
    (IF link = "closed"
     THEN IF o = "open_fail" THEN <<"open_fail">> ELSE <<"open_ok">>
     ELSE <<>>)
    \o (CASE o = "open_fail" -> <<>>
          [] o = "write_fail" -> <<"write_fail">>
          [] o = "flush_fail" -> <<"write_ok", "flush_fail">>
          [] OTHER -> <<"write_ok", "flush_ok">>)

\* a send without the None check: the write on a missing handle raises, and the
\* except branch goes on to reconnect
SendPacket_NoGuard ==
    /\ pc = "send"
    /\ sendEntry' = arduino
    /\ \E o \in (IF arduino = "none" THEN {"write_fail"} ELSE SendOutcomes(arduino)) :
          /\ arduino' = IF arduino = "none" THEN "none"
                        ELSE IF o = "open_fail" THEN "closed" ELSE "open"
          /\ sendLog' = TryLog(arduino, o)
          /\ lastWrite' = IF o \in {"ok", "flush_fail"} THEN packet ELSE lastWrite
          /\ pc' = IF o = "ok" THEN "frame" ELSE "reconnect"
    /\ UNCHANGED <<captureVars, remoteVars, exitVars, hostVars, selectorVars, pixelVars, loop_count, sampleVars, deadzone_pixels, reconnectFailed,
                   frameVars, streamVars, cleanupVars>>

\* if self.arduino is not None: try: [open()] write(packet.encode()); flush()
SendPacket ==
    /\ pc = "send"
    /\ sendEntry' = arduino
    /\ IF arduino = "none"
       THEN /\ pc' = "frame"
            /\ sendLog' = <<>>
            /\ UNCHANGED <<remoteVars, exitVars, hostVars, selectorVars, pixelVars, arduino, lastWrite>>
       ELSE \E o \in SendOutcomes(arduino) :
              /\ arduino' = IF o = "open_fail" THEN "closed" ELSE "open"
              /\ sendLog' = TryLog(arduino, o)
              /\ lastWrite' = IF o \in {"ok", "flush_fail"} THEN packet ELSE lastWrite
              /\ pc' = IF o = "ok" THEN "frame" ELSE "reconnect"
    /\ UNCHANGED <<captureVars, remoteVars, exitVars, hostVars, selectorVars, pixelVars, loop_count, sampleVars, deadzone_pixels, reconnectFailed,
                   frameVars, streamVars, cleanupVars>>

\* except Exception: try: self.arduino.close() ...
Reconnect ==
    /\ pc = "reconnect"
    /\ \E closed \in BOOLEAN :
          IF closed
          THEN /\ arduino' = "closed"
               /\ sendLog' = Append(sendLog, "close_ok")
               /\ pc' = "reopen"
               /\ UNCHANGED reconnectFailed
          ELSE \* close() raised: except Exception as reconnect_error
               /\ arduino' = "none"
               /\ sendLog' = Append(sendLog, "close_fail")
               /\ reconnectFailed' = TRUE
               /\ pc' = "frame"
    /\ UNCHANGED <<captureVars, remoteVars, exitVars, hostVars, selectorVars, pixelVars, loop_count, sampleVars, deadzone_pixels, lastWrite, sendEntry,
                   frameVars, streamVars, cleanupVars>>

\* a reopen that goes round again when serial.Serial fails
Reopen_Retry ==
    /\ pc = "reopen"
    /\ \E opened \in BOOLEAN :
          /\ arduino' = IF opened THEN "open" ELSE "closed"
          /\ sendLog' = Append(sendLog, IF opened THEN "serial_ok" ELSE "serial_fail")
          /\ pc' = IF opened \/ Len(sendLog) > 6 THEN "frame" ELSE "reconnect"
    /\ UNCHANGED <<captureVars, remoteVars, exitVars, hostVars, selectorVars, pixelVars, loop_count, sampleVars, deadzone_pixels, lastWrite, sendEntry,
                   reconnectFailed, frameVars, streamVars, cleanupVars>>

\* a reopen that keeps the closed handle when serial.Serial fails
Reopen_KeepsHandle ==
    /\ pc = "reopen"
    /\ \E opened \in BOOLEAN :
          /\ arduino' = IF opened THEN "open" ELSE "closed"
          /\ sendLog' = Append(sendLog, IF opened THEN "serial_ok" ELSE "serial_fail")
          /\ reconnectFailed' = (reconnectFailed \/ ~opened)
    /\ pc' = "frame"
    /\ UNCHANGED <<captureVars, remoteVars, exitVars, hostVars, selectorVars, pixelVars, loop_count, sampleVars, deadzone_pixels, lastWrite, sendEntry,
                   frameVars, streamVars, cleanupVars>>

\* a reopen that writes the failed packet again once the port is open
Reopen_Resend ==
    /\ pc = "reopen"
    /\ \E opened \in BOOLEAN :
          /\ arduino' = IF opened THEN "open" ELSE "none"
          /\ sendLog' = sendLog \o (IF opened THEN <<"serial_ok", "write_ok", "flush_ok">>
                                    ELSE <<"serial_fail">>)
          /\ lastWrite' = IF opened THEN packet ELSE lastWrite
          /\ reconnectFailed' = (reconnectFailed \/ ~opened)
    /\ pc' = "frame"
    /\ UNCHANGED <<captureVars, remoteVars, exitVars, hostVars, selectorVars, pixelVars, loop_count, sampleVars, deadzone_pixels, sendEntry,
                   frameVars, streamVars, cleanupVars>>

\* ... self.arduino = serial.Serial(self.serial_port, self.baud_rate, timeout=1)
Reopen ==
    /\ pc = "reopen"
    /\ \E opened \in BOOLEAN :
          /\ arduino' = IF opened THEN "open" ELSE "none"
          /\ sendLog' = Append(sendLog, IF opened THEN "serial_ok" ELSE "serial_fail")
          /\ reconnectFailed' = (reconnectFailed \/ ~opened)
    /\ pc' = "frame"
    /\ UNCHANGED <<captureVars, remoteVars, exitVars, hostVars, selectorVars, pixelVars, loop_count, sampleVars, deadzone_pixels, lastWrite, sendEntry,
                   frameVars, streamVars, cleanupVars>>

----------------------------------------------------------------------------
(* run: annotated frame, FrameBroadcastBuffer.publish, quit key *)

\* eye_model.get_current_frame(): the frame stored by get_eye_location
GetCurrentFrame == last_frame

\* The shutdown starts: remember why, and whether the link was open.
BeginShutdown(cause) ==
    /\ shutdownCause' = IF shutdownCause = "none" THEN cause ELSE shutdownCause
    /\ linkOpenAtShutdown' =
          IF shutdownCause = "none" THEN arduino = "open" ELSE linkOpenAtShutdown

\* frame = get_current_frame(); if frame is not None: annotated_frame = frame.copy() ...
ComposeFrame ==
    /\ pc = "frame"
    /\ IF GetCurrentFrame # NoFrame
       THEN /\ annotated_frame' = loop_count
            /\ pixels' = [pixels EXCEPT ![loop_count] = Composed(loop_count)]
            /\ pc' = "publish"
       ELSE /\ pc' = "display"
            /\ UNCHANGED <<annotated_frame, pixels>>
    /\ UNCHANGED <<captureVars, remoteVars, exitVars, hostVars, selectorVars, hpixels, published, loop_count, sampleVars, deadzone_pixels, linkVars, last_frame,
                   latest_annotated_frame, frame_lock, streamVars, cleanupVars>>

\* An exception raised in the loop body outside its inner try blocks (fetching
\* or drawing on the frame): except Exception ... finally: self.cleanup()
LoopError ==
    /\ pc = "frame"
    /\ BeginShutdown("error")
    /\ caller' = "run"
    /\ pc' = "c_lock"
    /\ UNCHANGED <<captureVars, remoteVars, exitVars, hostVars, selectorVars, pixelVars, cleanupCount, loop_count, sampleVars, deadzone_pixels, linkVars, frameVars,
                   streamVars, cleanup_called, cleanup_lock, eye_model, closeAttempt,
                   signals, neutralAttempted, linkClosed>>

\* with self.frame_lock: entered
PublishAcquire ==
    /\ pc = "publish"
    /\ frame_lock = "free"
    /\ frame_lock' = "loop"
    /\ pc' = "store"
    /\ UNCHANGED <<captureVars, remoteVars, exitVars, hostVars, selectorVars, pixelVars, loop_count, sampleVars, deadzone_pixels, linkVars, last_frame,
                   annotated_frame, latest_annotated_frame, streamVars, cleanupVars>>

\* self.latest_annotated_frame = annotated_frame; the with block is left
\* a publish that keeps a frame nobody has replaced: the slot is written only
\* while it is empty
PublishStore_KeepFirst ==
    /\ pc = "store"
    /\ latest_annotated_frame' = IF latest_annotated_frame = NoFrame
                                 THEN annotated_frame ELSE latest_annotated_frame
    /\ published' = published \cup {annotated_frame}
    /\ frame_lock' = "free"
    /\ pc' = "display"
    /\ UNCHANGED <<captureVars, remoteVars, exitVars, hostVars, selectorVars, pixels, hpixels, loop_count, sampleVars, deadzone_pixels,
                   linkVars, last_frame, annotated_frame, streamVars, cleanupVars>>

\* a publish that writes the new image into the array already in the slot and
\* gets only its first half done
PublishStore_InPlace ==
    /\ pc = "store"
    /\ IF latest_annotated_frame = NoFrame
       THEN /\ latest_annotated_frame' = annotated_frame
            /\ UNCHANGED pixels
       ELSE /\ pixels' = [pixels EXCEPT ![latest_annotated_frame] =
                                            <<pixels[annotated_frame][1], @[2]>>]
            /\ UNCHANGED latest_annotated_frame
    /\ published' = published \cup {annotated_frame}
    /\ frame_lock' = "free"
    /\ pc' = "display"
    /\ UNCHANGED <<captureVars, remoteVars, exitVars, hostVars, selectorVars, hpixels, loop_count, sampleVars, deadzone_pixels, linkVars,
                   last_frame, annotated_frame, streamVars, cleanupVars>>

PublishStore ==
    /\ pc = "store"
    /\ latest_annotated_frame' = annotated_frame
    /\ published' = published \cup {annotated_frame}
    /\ frame_lock' = "free"
    /\ pc' = "display"
    /\ UNCHANGED <<captureVars, remoteVars, exitVars, hostVars, selectorVars, pixels, hpixels, loop_count, sampleVars, deadzone_pixels, linkVars, last_frame,
                   annotated_frame, streamVars, cleanupVars>>

\* display_frame_with_packet; key = cv2.waitKey(1) & 0xFF; if key == ord("q"): break
QuitCheck ==
    /\ pc = "display"
    /\ \E quit \in BOOLEAN :
          IF quit
          THEN /\ BeginShutdown("quit")
               /\ caller' = "run"
               /\ pc' = "c_lock"
          ELSE /\ pc' = "top"
               /\ UNCHANGED <<remoteVars, exitVars, hostVars, selectorVars, pixelVars, shutdownCause, linkOpenAtShutdown, caller>>
    /\ UNCHANGED <<captureVars, remoteVars, exitVars, hostVars, selectorVars, pixelVars, cleanupCount, loop_count, sampleVars, deadzone_pixels, linkVars, frameVars,
                   streamVars, cleanup_called, cleanup_lock, eye_model, closeAttempt,
                   signals, neutralAttempted, linkClosed>>

----------------------------------------------------------------------------
(* StreamServer: CameraStreamHandler.send_mjpeg_stream, one thread per viewer *)

\* do_GET for /stream.mjpeg: the response headers are sent
HConnect(h) ==
    /\ hpc[h] = "idle"
    /\ serving
    /\ hpc' = [hpc EXCEPT ![h] = "get"]
    /\ UNCHANGED <<captureVars, remoteVars, exitVars, hostVars, selectorVars, pixelVars, pc, loop_count, sampleVars, deadzone_pixels, linkVars, frameVars,
                   hframe, cleanupVars>>

\* get_latest_annotated_frame: with self.frame_lock: entered
HAcquire(h) ==
    /\ hpc[h] = "get"
    /\ frame_lock = "free"
    /\ frame_lock' = "handler"
    /\ hpc' = [hpc EXCEPT ![h] = "copy"]
    /\ UNCHANGED <<captureVars, remoteVars, exitVars, hostVars, selectorVars, pixelVars, pc, loop_count, sampleVars, deadzone_pixels, linkVars, last_frame,
                   annotated_frame, latest_annotated_frame, hframe, cleanupVars>>

\* self.latest_annotated_frame.copy(), begun: the slot is read once and the
\* first half of the array it refers to is copied
HCopyHalf(h) ==
    /\ hpc[h] = "copy"
    /\ latest_annotated_frame # NoFrame
    /\ hframe' = [hframe EXCEPT ![h] = latest_annotated_frame]
    /\ hpixels' = [hpixels EXCEPT ![h] = <<pixels[latest_annotated_frame][1], 0>>]
    /\ hpc' = [hpc EXCEPT ![h] = "copy2"]
    /\ UNCHANGED <<captureVars, remoteVars, exitVars, hostVars, selectorVars, pixels, published, pc, loop_count, sampleVars,
                   deadzone_pixels, linkVars, frameVars, cleanupVars>>

\* a handler that is still inside the with block while it encodes
HCopy_HoldsLock(h) ==
    /\ hpc[h] \in {"copy", "copy2"}
    /\ IF hpc[h] = "copy2"
       THEN /\ hpixels' = [hpixels EXCEPT
                              ![h] = <<hpixels[h][1], pixels[hframe[h]][2]>>]
            /\ hpc' = [hpc EXCEPT ![h] = "encode"]
            /\ frame_lock' = "handler"
            /\ UNCHANGED hframe
       ELSE /\ latest_annotated_frame = NoFrame
            /\ hframe' = [hframe EXCEPT ![h] = NoFrame]
            /\ hpixels' = [hpixels EXCEPT ![h] = Blank]
            /\ hpc' = [hpc EXCEPT ![h] = "sleep"]
            /\ frame_lock' = "free"
    /\ UNCHANGED <<captureVars, remoteVars, exitVars, hostVars, selectorVars, pixels, published, pc, loop_count, sampleVars,
                   deadzone_pixels, linkVars, last_frame, annotated_frame,
                   latest_annotated_frame, cleanupVars>>

\* return self.latest_annotated_frame.copy() or None; the with block is left;
\* if frame is not None: ... else time.sleep.  The copy is completed from the
\* array the handler began with.
HCopy(h) ==
    /\ hpc[h] \in {"copy", "copy2"}
    /\ IF hpc[h] = "copy2"
       THEN /\ hpixels' = [hpixels EXCEPT
                              ![h] = <<hpixels[h][1], pixels[hframe[h]][2]>>]
            /\ hpc' = [hpc EXCEPT ![h] = "encode"]
            /\ UNCHANGED hframe
       ELSE /\ latest_annotated_frame = NoFrame
            /\ hframe' = [hframe EXCEPT ![h] = NoFrame]
            /\ hpixels' = [hpixels EXCEPT ![h] = Blank]
            /\ hpc' = [hpc EXCEPT ![h] = "sleep"]
    /\ frame_lock' = "free"
    /\ UNCHANGED <<captureVars, remoteVars, exitVars, hostVars, selectorVars, pixels, published, pc, loop_count, sampleVars,
                   deadzone_pixels, linkVars, last_frame, annotated_frame,
                   latest_annotated_frame, cleanupVars>>

\* ret, buffer = cv2.imencode(...): ret true, ret false, or an exception that
\* ends the handler
HEncode(h) ==
    /\ hpc[h] = "encode"
    /\ \E r \in {"write", "sleep", "done"} : hpc' = [hpc EXCEPT ![h] = r]
    /\ UNCHANGED <<captureVars, remoteVars, exitVars, hostVars, selectorVars, pixelVars, pc, loop_count, sampleVars, deadzone_pixels, linkVars, frameVars,
                   hframe, cleanupVars>>

\* self.wfile.write(...) ... flush(): sent, or the viewer is gone (break)
HWrite(h) ==
    /\ hpc[h] = "write"
    /\ \E r \in {"sleep", "done"} : hpc' = [hpc EXCEPT ![h] = r]
    /\ UNCHANGED <<captureVars, remoteVars, exitVars, hostVars, selectorVars, pixelVars, pc, loop_count, sampleVars, deadzone_pixels, linkVars, frameVars,
                   hframe, cleanupVars>>

\* time.sleep(1 / 15); while True
HSleep(h) ==
    /\ hpc[h] = "sleep"
    /\ hpc' = [hpc EXCEPT ![h] = "get"]
    /\ UNCHANGED <<captureVars, remoteVars, exitVars, hostVars, selectorVars, pixelVars, pc, loop_count, sampleVars, deadzone_pixels, linkVars, frameVars,
                   hframe, cleanupVars>>

----------------------------------------------------------------------------
(* cleanup, _signal_handler, process exit *)

\* The process ends: main's finally stops the HTTP listener
\* (http_server.shutdown()) and main returns, or sys.exit(0) has been raised,
\* so the exit status is 0; the operating system closes whatever is still
\* open, and a with block that is unwound releases its lock.
ProcessExit ==
    /\ pc' = "exited"
    /\ linkClosed' = TRUE
    /\ serving' = FALSE
    /\ exit_status' = 0
    /\ frame_lock' = IF frame_lock = "loop" THEN "free" ELSE frame_lock

\* with self._cleanup_lock: entered
CleanupLock ==
    /\ pc = "c_lock"
    /\ ~cleanup_lock
    /\ cleanup_lock' = TRUE
    /\ pc' = "c_flag"
    /\ UNCHANGED <<captureVars, remoteVars, exitVars, hostVars, selectorVars, pixelVars, cleanupCount, loop_count, sampleVars, deadzone_pixels, linkVars, frameVars,
                   streamVars, cleanup_called, caller, eye_model, closeAttempt, signals,
                   shutdownCause, linkOpenAtShutdown, neutralAttempted, linkClosed>>

\* a cleanup without the idempotency flag: every call runs the body
CleanupFlag_NoFlag ==
    /\ pc = "c_flag"
    /\ cleanup_lock' = FALSE
    /\ IF FALSE
       THEN /\ ProcessExit
            /\ UNCHANGED <<cleanup_called, cleanupCount>>
       ELSE /\ cleanup_called' = cleanup_called
            /\ cleanupCount' = [cleanupCount EXCEPT !.body = @ + 1]
            /\ pc' = "c_neutral"
            /\ UNCHANGED <<remoteVars, exitVars, hostVars, selectorVars, pixelVars, frame_lock, linkClosed>>
    /\ UNCHANGED <<captureVars, remoteVars, hostVars, selectorVars, pixelVars, loop_count, sampleVars, deadzone_pixels, linkVars, last_frame,
                   annotated_frame, latest_annotated_frame, streamVars, caller,
                   eye_model, closeAttempt, signals, shutdownCause, linkOpenAtShutdown,
                   neutralAttempted>>

\* if self._cleanup_called: return; self._cleanup_called = True; lock released.
\* A repeated call returns to main's finally, which ends the process.
CleanupFlag ==
    /\ pc = "c_flag"
    /\ cleanup_lock' = FALSE
    /\ IF cleanup_called
       THEN /\ ProcessExit
            /\ UNCHANGED <<cleanup_called, cleanupCount>>
       ELSE /\ cleanup_called' = TRUE
            /\ cleanupCount' = [cleanupCount EXCEPT !.body = @ + 1]
            /\ pc' = "c_neutral"
            /\ UNCHANGED <<remoteVars, exitVars, hostVars, selectorVars, pixelVars, frame_lock, linkClosed>>
    /\ UNCHANGED <<captureVars, remoteVars, hostVars, selectorVars, pixelVars, loop_count, sampleVars, deadzone_pixels, linkVars, last_frame,
                   annotated_frame, latest_annotated_frame, streamVars, caller,
                   eye_model, closeAttempt, signals, shutdownCause, linkOpenAtShutdown,
                   neutralAttempted>>

\* Step 1: if self.arduino and self.arduino.is_open: write(b"N000N000"); flush()
CleanupNeutral ==
    /\ pc = "c_neutral"
    /\ IF arduino = "open"
       THEN /\ neutralAttempted' = TRUE
            /\ cleanupCount' = [cleanupCount EXCEPT !.neutral = @ + 1]
            /\ \E o \in {"ok", "write_fail", "flush_fail"} :
                  lastWrite' = IF o = "write_fail" THEN lastWrite ELSE NeutralPacket
       ELSE UNCHANGED <<neutralAttempted, lastWrite, cleanupCount>>
    /\ pc' = "c_eye"
    /\ UNCHANGED <<captureVars, remoteVars, exitVars, hostVars, selectorVars, pixelVars, loop_count, sampleVars, deadzone_pixels, arduino, sendEntry,
                   sendLog, reconnectFailed, frameVars,
                   streamVars, cleanup_called, cleanup_lock, caller, eye_model,
                   closeAttempt, signals, shutdownCause, linkOpenAtShutdown, linkClosed>>

\* Step 2: self.eye_model.cleanup(); self.eye_model = None
CleanupEyeModel ==
    /\ pc = "c_eye"
    /\ eye_model' = FALSE
    /\ pc' = "c_close"
    /\ UNCHANGED <<captureVars, remoteVars, exitVars, hostVars, selectorVars, pixelVars, cleanupCount, loop_count, sampleVars, deadzone_pixels, linkVars, frameVars,
                   streamVars, cleanup_called, cleanup_lock, caller, closeAttempt,
                   signals, shutdownCause, linkOpenAtShutdown, neutralAttempted,
                   linkClosed>>

\* Step 3, one pass of: for attempt in range(3): try: if self.arduino: ...
CleanupClose ==
    /\ pc = "c_close"
    /\ IF arduino = "none"
       THEN /\ pc' = "c_final"
            /\ UNCHANGED <<arduino, closeAttempt, linkClosed, cleanupCount>>
       ELSE \E closed \in BOOLEAN :
              IF arduino = "closed" \/ closed
              THEN /\ arduino' = "none"
                   /\ cleanupCount' = [cleanupCount EXCEPT
                                         !.close = IF arduino = "open" THEN @ + 1 ELSE @]
                   /\ linkClosed' = TRUE
                   /\ pc' = "c_final"
                   /\ UNCHANGED closeAttempt
              ELSE \* close() raised
                   /\ closeAttempt' = closeAttempt + 1
                   /\ pc' = IF closeAttempt + 1 >= CLOSE_ATTEMPTS THEN "c_final"
                            ELSE "c_close"
                   /\ UNCHANGED <<arduino, linkClosed, cleanupCount>>
    /\ UNCHANGED <<captureVars, remoteVars, exitVars, hostVars, selectorVars, pixelVars, loop_count, sampleVars, deadzone_pixels, lastWrite, sendEntry,
                   sendLog, reconnectFailed, frameVars,
                   streamVars, cleanup_called, cleanup_lock, caller, eye_model, signals,
                   shutdownCause, linkOpenAtShutdown, neutralAttempted>>

\* a signal handler that returns into the loop after its cleanup
CleanupFinal_ResumesLoop ==
    /\ pc = "c_final"
    /\ IF caller = "run"
       THEN /\ caller' = "main"
            /\ pc' = "c_lock"
            /\ UNCHANGED <<remoteVars, exitVars, hostVars, selectorVars, pixelVars, frame_lock, linkClosed>>
       ELSE IF caller = "handler"
            THEN /\ pc' = "top"
                 /\ UNCHANGED <<caller, exitVars, frame_lock, linkClosed>>
            ELSE /\ ProcessExit
                 /\ UNCHANGED caller
    /\ UNCHANGED <<captureVars, remoteVars, hostVars, selectorVars, pixelVars, cleanupCount, loop_count, sampleVars, deadzone_pixels, linkVars, last_frame,
                   annotated_frame, latest_annotated_frame, streamVars, cleanup_called,
                   cleanup_lock, eye_model, closeAttempt, signals, shutdownCause,
                   linkOpenAtShutdown, neutralAttempted>>

\* Steps 4 and 5, and the return.  Called from run's finally, cleanup returns
\* to run and then main's finally calls cleanup again; called from
\* _signal_handler, sys.exit(0) follows.
CleanupFinal ==
    /\ pc = "c_final"
    /\ IF caller = "run"
       THEN /\ caller' = "main"
            /\ pc' = "c_lock"
            /\ UNCHANGED <<remoteVars, exitVars, hostVars, selectorVars, pixelVars, frame_lock, linkClosed>>
       ELSE /\ ProcessExit
            /\ UNCHANGED caller
    /\ UNCHANGED <<captureVars, remoteVars, hostVars, selectorVars, pixelVars, cleanupCount, loop_count, sampleVars, deadzone_pixels, linkVars, last_frame,
                   annotated_frame, latest_annotated_frame, streamVars, cleanup_called,
                   cleanup_lock, eye_model, closeAttempt, signals, shutdownCause,
                   linkOpenAtShutdown, neutralAttempted>>

\* SIGINT / SIGTERM: _signal_handler runs on the main thread, between two steps
\* of whatever the main thread is executing: self.cleanup(); sys.exit(0).
\*  - cleanup has not yet set its flag: the handler's call runs the whole
\*    cleanup and then exits;
\*  - the interrupted code holds _cleanup_lock: the handler's call waits for a
\*    lock its own thread holds;
\*  - the flag is set: the handler's call returns at once, and SystemExit
\*    unwinds the interrupted cleanup, whose remaining steps do not run.
SignalHandler ==
    /\ pc \in LoopPcs \cup CleanupPcs
    /\ signals < MaxSignals
    /\ signals' = signals + 1
    /\ BeginShutdown("signal")
    /\ IF cleanup_lock
       THEN /\ pc' = "deadlock"
            /\ UNCHANGED <<remoteVars, exitVars, hostVars, selectorVars, pixelVars, caller, frame_lock, linkClosed>>
       ELSE IF ~cleanup_called
            THEN /\ caller' = "handler"
                 /\ pc' = "c_lock"
                 /\ UNCHANGED <<remoteVars, exitVars, hostVars, selectorVars, pixelVars, frame_lock, linkClosed>>
            ELSE /\ ProcessExit
                 /\ UNCHANGED caller
    /\ UNCHANGED <<captureVars, remoteVars, hostVars, selectorVars, pixelVars, cleanupCount, loop_count, sampleVars, deadzone_pixels, linkVars, last_frame,
                   annotated_frame, latest_annotated_frame, streamVars, cleanup_called,
                   cleanup_lock, eye_model, closeAttempt, neutralAttempted>>

\* Interpreter exit: the atexit callbacks (self.cleanup, main's cleanup) and
\* then __del__ call cleanup once more
LateCall ==
    /\ pc = "exited"
    /\ caller # "del"
    /\ caller' = IF caller = "atexit" THEN "del" ELSE "atexit"
    /\ pc' = "c_lock"
    /\ UNCHANGED <<captureVars, remoteVars, exitVars, hostVars, selectorVars, pixelVars, cleanupCount, loop_count, sampleVars,
                   deadzone_pixels, linkVars, frameVars, streamVars, cleanup_called,
                   cleanup_lock, eye_model, closeAttempt, signals, shutdownCause,
                   linkOpenAtShutdown, neutralAttempted, linkClosed>>

----------------------------------------------------------------------------
(* The controller: control loop, link and shutdown *)

Next ==
    \/ LoopTop
    \/ GetEyeLocation(SampleKinds, Positions)
    \/ CalcPacket
    \/ SendPacket
    \/ Reconnect
    \/ Reopen
    \/ ComposeFrame
    \/ LoopError
    \/ PublishAcquire
    \/ PublishStore
    \/ QuitCheck
    \/ CleanupLock
    \/ CleanupFlag
    \/ CleanupNeutral
    \/ CleanupEyeModel
    \/ CleanupClose
    \/ CleanupFinal
    \/ SignalHandler

Spec == Init /\ [][Next]_vars

\* The controller up to the end of the interpreter: the calls of cleanup that
\* follow the exit included
NextShutdown ==
    \/ Next
    \/ LateCall

SpecShutdown == Init /\ [][NextShutdown]_vars

----------------------------------------------------------------------------
(* The codec alone: _calculate_directional_packet applied to any offset and  *)
(* any deadzone radius.                                                      *)

CodecValues == {0 - 1000, 0 - 999, 0 - 140, 0 - 11, 0 - 10, 0 - 8, 0 - 6, 0 - 4,
                0 - 1, 0, 1, 3, 4, 6, 8, 10, 11, 180, 999, 1000, 1234}
CodecRadii == {0, 5, 10}

InitCodec ==
    /\ InitCommon
    /\ pc = "calc"
    /\ \/ \E dx \in CodecValues, dy \in CodecValues :
             eye = <<ReferenceX + dx, ReferenceY + dy>>
       \/ eye = <<>>
    /\ packet = <<>>
    /\ deadzone_pixels \in CodecRadii
    /\ arduino = "none"

NextCodec == CalcPacket

SpecCodec == InitCodec /\ [][NextCodec]_vars

----------------------------------------------------------------------------
(* The link alone: send applied to every state of the serial handle, with   *)
(* every outcome of the serial calls.                                       *)

LinkPackets == {NeutralPacket, InZonePacket, EncodeDirectional(180, 0 - 140)}

InitLink ==
    /\ InitCommon
    /\ pc = "send"
    /\ eye = <<>>
    /\ packet \in LinkPackets
    /\ deadzone_pixels = DEADZONE_DEFAULT
    /\ arduino \in {"none", "open", "closed"}

\* the caller's next send
NextSend ==
    /\ pc = "frame"
    /\ loop_count < MaxIter
    /\ loop_count' = loop_count + 1
    /\ packet' \in LinkPackets
    /\ pc' = "send"
    /\ sendEntry' = "-"
    /\ sendLog' = <<>>
    /\ UNCHANGED <<captureVars, remoteVars, exitVars, hostVars, selectorVars, pixelVars, eye, sampleKind, deadzone_pixels, arduino, lastWrite, reconnectFailed,
                   frameVars, streamVars, cleanupVars>>

NextLink ==
    \/ SendPacket
    \/ Reconnect
    \/ Reopen
    \/ NextSend

SpecLink == InitLink /\ [][NextLink]_vars

----------------------------------------------------------------------------
(* The control loop together with the stream handlers.  A handler may stay   *)
(* in the encoder or in a socket write for ever; the main thread runs, a     *)
(* handler inside get_latest_annotated_frame runs, and a thread that keeps   *)
(* finding frame_lock free from time to time gets it.                        *)

InitStream ==
    /\ InitCommon
    /\ pc = "top"
    /\ eye = <<>>
    /\ packet = <<>>
    /\ deadzone_pixels = DEADZONE_DEFAULT
    /\ arduino = "open"

MainStep ==
    \/ LoopTop
    \/ GetEyeLocation(StreamKinds, SmallPositions)
    \/ CalcPacket
    \/ SendPacket
    \/ Reconnect
    \/ Reopen
    \/ ComposeFrame
    \/ PublishStore
    \/ QuitCheck

NextStream ==
    \/ MainStep
    \/ PublishAcquire
    \/ \E h \in Handlers : HConnect(h)
    \/ \E h \in Handlers : HAcquire(h)
    \/ \E h \in Handlers : HCopyHalf(h)
    \/ \E h \in Handlers : HCopy(h)
    \/ \E h \in Handlers : HEncode(h)
    \/ \E h \in Handlers : HWrite(h)
    \/ \E h \in Handlers : HSleep(h)

FairStream ==
    /\ WF_vars(MainStep)
    /\ SF_vars(PublishAcquire)
    /\ WF_vars(\E h \in Handlers : HCopyHalf(h))
    /\ WF_vars(\E h \in Handlers : HCopy(h))

SpecStream == InitStream /\ [][NextStream]_vars /\ FairStream

----------------------------------------------------------------------------
(* The frame buffer alone: one writer that publishes one annotated frame     *)
(* after another, and the stream handlers that read the slot.                *)

InitBuffer ==
    /\ InitCommon
    /\ pc = "display"
    /\ eye = <<>>
    /\ packet = <<>>
    /\ deadzone_pixels = DEADZONE_DEFAULT
    /\ arduino = "none"

\* the writer has the next annotated frame ready: annotated_frame =
\* frame.copy() and the drawing on it are done before the with block
NextFrame ==
    /\ pc = "display"
    /\ loop_count < MaxIter
    /\ loop_count' = loop_count + 1
    /\ annotated_frame' = loop_count + 1
    /\ pixels' = [pixels EXCEPT ![loop_count + 1] = Composed(loop_count + 1)]
    /\ pc' = "publish"
    /\ UNCHANGED <<captureVars, remoteVars, exitVars, hostVars, selectorVars, hpixels, published, sampleVars, deadzone_pixels, linkVars,
                   last_frame, latest_annotated_frame, frame_lock, streamVars,
                   cleanupVars>>

NextBuffer ==
    \/ NextFrame
    \/ PublishAcquire
    \/ PublishStore
    \/ \E h \in Handlers : HConnect(h)
    \/ \E h \in Handlers : HAcquire(h)
    \/ \E h \in Handlers : HCopyHalf(h)
    \/ \E h \in Handlers : HCopy(h)
    \/ \E h \in Handlers : HEncode(h)
    \/ \E h \in Handlers : HWrite(h)
    \/ \E h \in Handlers : HSleep(h)

SpecBuffer == InitBuffer /\ [][NextBuffer]_vars

----------------------------------------------------------------------------
(* The stream server under a shutdown signal: the writer of the frame        *)
(* buffer, the stream handlers, the signal handler and cleanup.              *)

\* The interpreter ends: the handler threads are daemon threads
\* (ThreadingHTTPServer) and are abandoned wherever they are.
DaemonsEnd ==
    /\ pc = "exited"
    /\ \E h \in Handlers : hpc[h] \notin {"idle", "done", "killed"}
    /\ hpc' = [h \in Handlers |->
                 IF hpc[h] \in {"idle", "done"} THEN hpc[h] ELSE "killed"]
    /\ UNCHANGED <<captureVars, remoteVars, exitVars, hostVars, selectorVars, pixelVars, pc, loop_count,
                   sampleVars, deadzone_pixels, linkVars, frameVars, hframe, cleanupVars>>

InitStop ==
    /\ InitCommon
    /\ pc = "display"
    /\ eye = <<>>
    /\ packet = <<>>
    /\ deadzone_pixels = DEADZONE_DEFAULT
    /\ arduino = "open"

MainStop ==
    \/ NextFrame
    \/ PublishAcquire
    \/ PublishStore
    \/ CleanupLock
    \/ CleanupFlag
    \/ CleanupNeutral
    \/ CleanupEyeModel
    \/ CleanupClose
    \/ CleanupFinal
    \/ DaemonsEnd

HandlerStep(h) ==
    \/ HConnect(h)
    \/ HAcquire(h)
    \/ HCopyHalf(h)
    \/ HCopy(h)
    \/ HEncode(h)
    \/ HWrite(h)
    \/ HSleep(h)

NextStop ==
    \/ MainStop
    \/ SignalHandler
    \/ \E h \in Handlers : HandlerStep(h)

\* every thread that can take a step eventually takes one
FairStop ==
    /\ WF_vars(MainStop)
    /\ \A h \in Handlers : WF_vars(HandlerStep(h))

SpecStop == InitStop /\ [][NextStop]_vars /\ FairStop

----------------------------------------------------------------------------
(* The program from its start: main creates the controller, whose __init__   *)
(* opens the serial port, asks the peer for its status and creates the eye   *)
(* detection model; then the HTTP server is started and run is entered.      *)

InitStartup ==
    /\ InitBase
    /\ loop_count = 0
    /\ now = Epoch
    /\ RemoteOff
    /\ eye_model = FALSE
    /\ serving = FALSE
    /\ startup = "pending"
    /\ pc = "s_serial"
    /\ eye = <<>>
    /\ packet = <<>>
    /\ deadzone_pixels = DEADZONE_DEFAULT
    /\ arduino = "none"

\* a failed open that leaves a closed handle behind instead of None
StartSerial_KeepsHandle ==
    /\ pc = "s_serial"
    /\ \E o \in {"no_port", "opened", "raised"} :
          /\ arduino' = IF o = "opened" THEN "open"
                        ELSE IF o = "raised" THEN "closed" ELSE "none"
          /\ portOpenFailed' = (o = "raised")
    /\ pc' = "s_wifi"
    /\ UNCHANGED <<captureVars, remoteVars, exitVars, startup, status_reply, selectorVars, pixelVars,
                   loop_count, sampleVars, deadzone_pixels, lastWrite, sendEntry, sendLog,
                   reconnectFailed, frameVars, streamVars, cleanupVars>>

\* __init__: if serial_port: try: self.arduino = serial.Serial(...)
\* except Exception: self.arduino = None; no port found: self.arduino stays None
StartSerial ==
    /\ pc = "s_serial"
    /\ \E o \in {"no_port", "opened", "raised"} :
          /\ arduino' = IF o = "opened" THEN "open" ELSE "none"
          /\ portOpenFailed' = (o = "raised")
    /\ pc' = "s_wifi"
    /\ UNCHANGED <<captureVars, remoteVars, exitVars, startup, status_reply, selectorVars, pixelVars,
                   loop_count, sampleVars, deadzone_pixels, lastWrite, sendEntry, sendLog,
                   reconnectFailed, frameVars, streamVars, cleanupVars>>

\* __init__: wifi_status = check_arduino_wifi_status(...); if wifi_status:
\* wifi_enabled = True; plotter_enabled = wifi_status.get("enabled", False)
StartWifi ==
    /\ pc = "s_wifi"
    /\ \E answered \in BOOLEAN, enabled \in BOOLEAN :
          /\ ~answered => ~enabled
          /\ wifi_enabled' = answered
          /\ plotter_enabled' = enabled
    /\ pc' = "s_eye"
    /\ UNCHANGED <<captureVars, last_status_check, pollLog, current_time, pollOutcome, exitVars, hostVars,
                   selectorVars, pixelVars,
                   loop_count, sampleVars, deadzone_pixels, linkVars, frameVars, streamVars,
                   cleanupVars>>

\* an __init__ that swallows the camera failure and goes on
StartEyeModel_Swallow ==
    /\ pc = "s_eye"
    /\ \E camera_found \in BOOLEAN :
          /\ startup' = IF camera_found THEN "ok" ELSE "failed"
          /\ eye_model' = camera_found
    /\ serving' = TRUE
    /\ pc' = "top"
    /\ UNCHANGED <<captureVars, remoteVars, exit_status, status_reply, portOpenFailed, selectorVars,
                   pixelVars, loop_count, sampleVars, deadzone_pixels, linkVars, frameVars,
                   streamVars, cleanup_called, cleanup_lock, caller, closeAttempt, signals,
                   shutdownCause, linkOpenAtShutdown, neutralAttempted, linkClosed,
                   cleanupCount>>

\* __init__: self.eye_model = EyeDetectionModel(...); its __init__ raises
\* RuntimeError when neither camera works, and the controller's __init__
\* raises it again into main's except.  Otherwise main starts the HTTP server
\* and calls run.
StartEyeModel ==
    /\ pc = "s_eye"
    /\ \E camera_found \in BOOLEAN :
          IF camera_found
          THEN /\ startup' = "ok"
               /\ eye_model' = TRUE
               /\ serving' = TRUE
               /\ pc' = "top"
          ELSE /\ startup' = "failed"
               /\ pc' = "m_finally"
               /\ UNCHANGED <<eye_model, serving>>
    /\ UNCHANGED <<captureVars, remoteVars, exit_status, status_reply, portOpenFailed, selectorVars,
                   pixelVars, loop_count, sampleVars, deadzone_pixels, linkVars, frameVars,
                   streamVars, cleanup_called, cleanup_lock, caller, closeAttempt, signals,
                   shutdownCause, linkOpenAtShutdown, neutralAttempted, linkClosed,
                   cleanupCount>>

\* main: except Exception: print, traceback; finally: cleanup() finds neither
\* a controller nor a server; main returns and the process ends
MainFinally ==
    /\ pc = "m_finally"
    /\ ProcessExit
    /\ UNCHANGED <<captureVars, remoteVars, hostVars, selectorVars, pixelVars, loop_count, sampleVars,
                   deadzone_pixels, linkVars, last_frame, annotated_frame,
                   latest_annotated_frame, streamVars, cleanup_called, cleanup_lock, caller,
                   eye_model, closeAttempt, signals, shutdownCause, linkOpenAtShutdown,
                   neutralAttempted, cleanupCount>>

NextStartup ==
    \/ StartSerial
    \/ StartWifi
    \/ StartEyeModel
    \/ MainFinally
    \/ MainStep
    \/ LoopError
    \/ PublishAcquire
    \/ CleanupLock
    \/ CleanupFlag
    \/ CleanupNeutral
    \/ CleanupEyeModel
    \/ CleanupClose
    \/ CleanupFinal
    \/ SignalHandler

SpecStartup == InitStartup /\ [][NextStartup]_vars

----------------------------------------------------------------------------
(* The periodic poll of the remote peer: run's clock reading, the test for   *)
(* the poll being due, check_plotter_status, the iteration's send, and the   *)
(* /status handler that reports what the controller knows of the peer.  A    *)
(* poll request blocks for at most its timeout; the rest of an iteration     *)
(* takes any of a few durations.                                             *)

STATUS_INTERVAL == 5
POLL_TIMEOUT == 1

StatusIntervalTicks == STATUS_INTERVAL * TicksPerSecond
PollTimeoutTicks == POLL_TIMEOUT * TicksPerSecond
PollIters == MaxIter + 1
IterationTicks == {1, StatusIntervalTicks - 1, StatusIntervalTicks + 1}

InitPoll ==
    /\ InitBase
    /\ loop_count = 0
    /\ now = StatusIntervalTicks + 1
    /\ wifi_enabled \in BOOLEAN
    /\ plotter_enabled \in BOOLEAN
    /\ ~wifi_enabled => ~plotter_enabled
    /\ eye_model = TRUE
    /\ serving = TRUE
    /\ startup = "ok"
    /\ pc = "top"
    /\ eye = <<>>
    /\ packet \in LinkPackets
    /\ deadzone_pixels = DEADZONE_DEFAULT
    /\ arduino \in {"none", "open"}

\* a due test that also fires when exactly the interval has passed
StatusDue_NotStrict ==
    /\ pc = "top"
    /\ loop_count < PollIters
    /\ loop_count' = loop_count + 1
    /\ current_time' = now
    /\ pc' = IF now - last_status_check >= StatusIntervalTicks THEN "poll" ELSE "send"
    /\ sendEntry' = "-"
    /\ sendLog' = <<>>
    /\ UNCHANGED <<captureVars, wifi_enabled, plotter_enabled, last_status_check, pollLog, pollOutcome,
                   exitVars, hostVars, selectorVars, pixelVars, sampleVars, deadzone_pixels,
                   arduino, lastWrite, reconnectFailed, frameVars, streamVars, cleanupVars>>

\* while True: loop_count += 1; current_time = time.time();
\* if current_time - last_status_check > 5: ...
StatusDue ==
    /\ pc = "top"
    /\ loop_count < PollIters
    /\ loop_count' = loop_count + 1
    /\ current_time' = now
    /\ pc' = IF now - last_status_check > StatusIntervalTicks THEN "poll" ELSE "send"
    /\ sendEntry' = "-"
    /\ sendLog' = <<>>
    /\ UNCHANGED <<captureVars, wifi_enabled, plotter_enabled, last_status_check, pollLog, pollOutcome,
                   exitVars, hostVars, selectorVars, pixelVars, sampleVars, deadzone_pixels,
                   arduino, lastWrite, reconnectFailed, frameVars, streamVars, cleanupVars>>

\* The outcomes of check_arduino_wifi_status: a 200 response whose JSON says
\* enabled or not, a response with another status, no response within the
\* timeout, or an exception raised by the request or by json().
PollOutcomes == {"enabled", "disabled", "not_200", "silent", "raised"}
PollAnswered == {"enabled", "disabled"}
PollBlocks(o) == IF o = "silent" THEN {PollTimeoutTicks} ELSE {0}

\* a poll that drops the serial handle when the peer does not answer
CheckPlotterStatus_DropsLink ==
    /\ pc = "poll"
    /\ IF wifi_enabled
       THEN \E o \in PollOutcomes :
              /\ pollLog' = Append(pollLog, now)
              /\ pollOutcome' = o
              /\ plotter_enabled' = IF o \in PollAnswered THEN o = "enabled"
                                    ELSE plotter_enabled
              /\ arduino' = IF o \in PollAnswered THEN arduino ELSE "none"
              /\ \E d \in PollBlocks(o) : now' = now + d
       ELSE UNCHANGED <<pollLog, pollOutcome, plotter_enabled, now, arduino>>
    /\ last_status_check' = current_time
    /\ pc' = "send"
    /\ UNCHANGED <<captureVars, wifi_enabled, current_time, exitVars, hostVars, active_eye,
                   last_visibility_check, lm, switchLog, pixelVars, loop_count, sampleVars,
                   deadzone_pixels, lastWrite, sendEntry, sendLog, reconnectFailed,
                   frameVars, streamVars, cleanupVars>>

\* self.check_plotter_status(); last_status_check = current_time
\* check_plotter_status: if self.wifi_enabled: try: status =
\* check_arduino_wifi_status(..., timeout=1); if status: self.plotter_enabled =
\* status.get("enabled", False); return True; except Exception: pass
CheckPlotterStatus ==
    /\ pc = "poll"
    /\ IF wifi_enabled
       THEN \E o \in PollOutcomes :
              /\ pollLog' = Append(pollLog, now)
              /\ pollOutcome' = o
              /\ plotter_enabled' = IF o \in PollAnswered THEN o = "enabled"
                                    ELSE plotter_enabled
              /\ \E d \in PollBlocks(o) : now' = now + d
       ELSE UNCHANGED <<pollLog, pollOutcome, plotter_enabled, now>>
    /\ last_status_check' = current_time
    /\ pc' = "send"
    /\ UNCHANGED <<captureVars, wifi_enabled, current_time, exitVars, hostVars, active_eye,
                   last_visibility_check, lm, switchLog, pixelVars, loop_count, sampleVars,
                   deadzone_pixels, linkVars, frameVars, streamVars, cleanupVars>>

\* the rest of the iteration: time passes, and the next packet is computed
PollIteration ==
    /\ pc = "frame"
    /\ loop_count < PollIters
    /\ \E d \in IterationTicks : now' = now + d
    /\ packet' \in LinkPackets
    /\ pc' = "top"
    /\ UNCHANGED <<captureVars, remoteVars, exitVars, hostVars, active_eye, last_visibility_check, lm,
                   switchLog,
                   pixelVars, loop_count, eye, sampleKind, deadzone_pixels, linkVars,
                   frameVars, streamVars, cleanupVars>>

\* a /status handler that probes the serial port and drops a handle whose
\* port is closed
SendStatus_ProbesLink ==
    /\ serving
    /\ status_reply' = [sent |-> TRUE,
                        camera |-> eye_model,
                        arduino_serial |-> (arduino = "open"),
                        arduino_wifi |-> wifi_enabled,
                        plotter_enabled |-> plotter_enabled]
    /\ arduino' = IF arduino = "open" THEN "open" ELSE "none"
    /\ UNCHANGED <<captureVars, remoteVars, exitVars, startup, portOpenFailed, selectorVars, pixelVars,
                   pc, loop_count, sampleVars, deadzone_pixels, lastWrite, sendEntry,
                   sendLog, reconnectFailed, frameVars, streamVars, cleanupVars>>

\* CameraStreamHandler.send_status: the JSON built from the controller's
\* eye_model, arduino, wifi_enabled and plotter_enabled
SendStatus ==
    /\ serving
    /\ status_reply' = [sent |-> TRUE,
                        camera |-> eye_model,
                        arduino_serial |-> (arduino # "none"),
                        arduino_wifi |-> wifi_enabled,
                        plotter_enabled |-> plotter_enabled]
    /\ UNCHANGED <<captureVars, remoteVars, exitVars, startup, portOpenFailed, selectorVars, pixelVars,
                   pc, loop_count, sampleVars, deadzone_pixels, linkVars, frameVars,
                   streamVars, cleanupVars>>

NextPoll ==
    \/ StatusDue
    \/ CheckPlotterStatus
    \/ SendPacket
    \/ Reconnect
    \/ Reopen
    \/ PollIteration
    \/ SendStatus

SpecPoll == InitPoll /\ [][NextPoll]_vars

----------------------------------------------------------------------------
(* The control loop with its eye selector and its serial link, together      *)
(* with the request handlers of the HTTP server: the stream handlers, whose  *)
(* first round is also what /test does, and /status.                         *)

\* the loop is about to begin its last iteration; the viewers arrive now
InitServe ==
    /\ InitBase
    /\ loop_count = MaxIter - 1
    /\ now = Epoch
    /\ RemoteOff
    /\ eye_model = TRUE
    /\ serving = TRUE
    /\ startup = "ok"
    /\ pc = "top"
    /\ eye = <<>>
    /\ packet = <<>>
    /\ deadzone_pixels = DEADZONE_DEFAULT
    /\ arduino = "open"

LoopThread ==
    \/ LoopTop
    \/ EyeModelGetEyeLocation
    \/ CalcPacket
    \/ SendPacket
    \/ Reconnect
    \/ Reopen
    \/ ComposeFrame
    \/ PublishAcquire
    \/ PublishStore
    \/ QuitCheck

HandlerThreads ==
    \/ \E h \in Handlers : HandlerStep(h)
    \/ SendStatus

NextServe == LoopThread \/ HandlerThreads

SpecServe == InitServe /\ [][NextServe]_vars

----------------------------------------------------------------------------
(* camera_http_server.py: CameraStreamServer._capture_loop, the capture      *)
(* thread of the camera-only server, and stop(), called by another thread.   *)

max_consecutive_errors == 10
MaxFrames == 12

\* How the rest of an iteration ends after get_eye_location.  The call of
\* eye_model.get_current_frame() raises AttributeError, which the try around
\* it catches ("attr_error"); were the method there, it could return None
\* ("none"), the copy could fail ("copy_fail"), the drawing could raise into
\* the except of the iteration ("body_raise"), or the frame is published ("ok").
CurrentFrameOutcomes == {"attr_error", "none", "copy_fail", "body_raise", "ok"}

InitCapture ==
    /\ InitCommon
    /\ pc = "top"
    /\ eye = <<>>
    /\ packet = <<>>
    /\ deadzone_pixels = DEADZONE_DEFAULT
    /\ arduino = "none"

\* while self.running: frame_count += 1
CaptureTop ==
    /\ cpc = "top"
    /\ IF running
       THEN /\ frame_count < MaxFrames
            /\ frame_count' = frame_count + 1
            /\ cpc' = "eye"
            /\ UNCHANGED stopCause
       ELSE /\ cpc' = "ended"
            /\ stopCause' = "stopped"
            /\ UNCHANGED frame_count
    /\ UNCHANGED <<running, consecutive_errors, errorRun, remoteVars, exitVars, hostVars, selectorVars, pixelVars, pc, loop_count,
                   sampleVars, deadzone_pixels, linkVars, frameVars, streamVars, cleanupVars>>

\* a loop that never resets its error counter
CaptureEye_NoReset ==
    /\ cpc = "eye"
    /\ \E raised \in BOOLEAN :
          IF raised
          THEN /\ consecutive_errors' = consecutive_errors + 1
               /\ errorRun' = errorRun + 1
               /\ IF consecutive_errors + 1 >= max_consecutive_errors
                  THEN cpc' = "ended" /\ stopCause' = "errors"
                  ELSE cpc' = "frame" /\ UNCHANGED stopCause
          ELSE /\ consecutive_errors' = consecutive_errors
               /\ errorRun' = 0
               /\ cpc' = "frame"
               /\ UNCHANGED stopCause
    /\ UNCHANGED <<running, frame_count, remoteVars, exitVars, hostVars, selectorVars, pixelVars, pc, loop_count,
                   sampleVars, deadzone_pixels, linkVars, frameVars, streamVars, cleanupVars>>

\* try: eye_x, eye_y = self.eye_model.get_eye_location(...);
\* consecutive_errors = 0; except Exception: consecutive_errors += 1;
\* if consecutive_errors >= max_consecutive_errors: break
CaptureEye ==
    /\ cpc = "eye"
    /\ \E raised \in BOOLEAN :
          IF raised
          THEN /\ consecutive_errors' = consecutive_errors + 1
               /\ errorRun' = errorRun + 1
               /\ IF consecutive_errors + 1 >= max_consecutive_errors
                  THEN cpc' = "ended" /\ stopCause' = "errors"
                  ELSE cpc' = "frame" /\ UNCHANGED stopCause
          ELSE /\ consecutive_errors' = 0
               /\ errorRun' = 0
               /\ cpc' = "frame"
               /\ UNCHANGED stopCause
    /\ UNCHANGED <<running, frame_count, remoteVars, exitVars, hostVars, selectorVars, pixelVars, pc, loop_count,
                   sampleVars, deadzone_pixels, linkVars, frameVars, streamVars, cleanupVars>>

\* frame = self.eye_model.get_current_frame() in its try (continue on an
\* exception or on None), the annotation, the store into latest_frame, the
\* sleep; except Exception of the iteration: consecutive_errors += 1;
\* if consecutive_errors >= max_consecutive_errors: break
CaptureFrame ==
    /\ cpc = "frame"
    /\ \E o \in CurrentFrameOutcomes :
          IF o = "body_raise"
          THEN /\ consecutive_errors' = consecutive_errors + 1
               /\ errorRun' = errorRun + 1
               /\ IF consecutive_errors + 1 >= max_consecutive_errors
                  THEN cpc' = "ended" /\ stopCause' = "errors"
                  ELSE cpc' = "top" /\ UNCHANGED stopCause
          ELSE /\ cpc' = "top"
               /\ UNCHANGED <<consecutive_errors, errorRun, stopCause>>
    /\ UNCHANGED <<running, frame_count, remoteVars, exitVars, hostVars, selectorVars, pixelVars, pc, loop_count,
                   sampleVars, deadzone_pixels, linkVars, frameVars, streamVars, cleanupVars>>

\* stop(): self.running = False
StopCapture ==
    /\ running
    /\ cpc # "ended"
    /\ running' = FALSE
    /\ UNCHANGED <<cpc, frame_count, consecutive_errors, errorRun, stopCause,
                   remoteVars, exitVars, hostVars, selectorVars, pixelVars, pc, loop_count,
                   sampleVars, deadzone_pixels, linkVars, frameVars, streamVars, cleanupVars>>

NextCapture ==
    \/ CaptureTop
    \/ CaptureEye
    \/ CaptureFrame
    \/ StopCapture

SpecCapture == InitCapture /\ [][NextCapture]_vars

----------------------------------------------------------------------------
(* The eye selector alone: get_eye_location called again and again, the      *)
(* clock advancing between the calls.                                        *)

InitSelector ==
    /\ InitCommon
    /\ pc = "top"
    /\ eye = <<>>
    /\ packet = <<>>
    /\ deadzone_pixels = DEADZONE_DEFAULT
    /\ arduino = "none"

NextSelector ==
    \/ EyeModelGetEyeLocation
    \/ NextCall

SpecSelector == InitSelector /\ [][NextSelector]_vars /\ WF_vars(NextSelector)

----------------------------------------------------------------------------
(* Reading a packet back, for the properties below *)

DigitChars == {"0", "1", "2", "3", "4", "5", "6", "7", "8", "9"}

DigitVal(c) == CHOOSE d \in 0..9 : DigitChar(d) = c

AllDigits(s) == \A i \in 1..Len(s) : s[i] \in DigitChars

RECURSIVE NumVal(_)
\* the number a sequence of digits denotes
NumVal(s) == IF s = <<>> THEN 0
             ELSE 10 * NumVal(SubSeq(s, 1, Len(s) - 1)) + DigitVal(s[Len(s)])

\* ^[UD]\d{3}[LR]\d{3}$
MatchesWire(p) ==
    /\ Len(p) = 8
    /\ p[1] \in {"U", "D"}
    /\ p[5] \in {"L", "R"}
    /\ \A i \in {2, 3, 4, 6, 7, 8} : p[i] \in DigitChars

\* n written with exactly three decimal digits (n <= 999)
ThreeDigits(n) ==
    IF n > 999 THEN <<>>
    ELSE <<DigitChar(n \div 100), DigitChar((n \div 10) % 10), DigitChar(n % 10)>>

Min(a, b) == IF a <= b THEN a ELSE b

\* the position of the horizontal direction letter of a packet, 0 if there is none
LetterH(p) == IF \E k \in 2..Len(p) : p[k] \in {"L", "R"}
              THEN CHOOSE k \in 2..Len(p) : p[k] \in {"L", "R"}
              ELSE 0

\* p is a vertical letter, digits worth v, a horizontal letter, digits worth h
CarriesOffset(p, dirV, v, dirH, h) ==
    LET k == LetterH(p)
    IN  /\ k > 2
        /\ k < Len(p)
        /\ p[1] = dirV
        /\ p[k] = dirH
        /\ AllDigits(SubSeq(p, 2, k - 1))
        /\ AllDigits(SubSeq(p, k + 1, Len(p)))
        /\ NumVal(SubSeq(p, 2, k - 1)) = v
        /\ NumVal(SubSeq(p, k + 1, Len(p))) = h

EyeDx == eye[1] - ReferenceX
EyeDy == eye[2] - ReferenceY
EyePresent == eye # <<>>
OutsideDeadzone ==
    EyePresent /\ EyeDx * EyeDx + EyeDy * EyeDy > deadzone_pixels * deadzone_pixels

\* the packet of this iteration has been computed and not yet replaced
PacketReady == pc \in {"send", "reconnect", "reopen", "frame", "publish", "store", "display"}

----------------------------------------------------------------------------
(* Properties *)

\* C7 (as claimed): for all integer offsets dx, dy the packet has length 8 and,
\* outside the deadzone, its magnitude fields are min(|dy|, 999) and min(|dx|, 999).
C7_LengthEightAndClamped ==
    (pc = "send" /\ EyePresent) =>
        /\ Len(packet) = 8
        /\ OutsideDeadzone =>
              /\ NumVal(SubSeq(packet, 2, 4)) = Min(Abs(EyeDy), 999)
              /\ NumVal(SubSeq(packet, 6, 8)) = Min(Abs(EyeDx), 999)

\* C8: in an iteration whose position sample is absent (the call raised, the
\* camera read failed, no face, active eye not visible) the packet handed to
\* send is exactly N000N000.
C8_AbsentGivesNeutral ==
    (PacketReady /\ sampleKind \in {"raise", "nocap", "noface", "hidden"}) =>
        (eye = <<>> /\ packet = NeutralPacket)

C8_Witness ==
    pc = "send" /\ sampleKind = "raise" /\ packet = NeutralPacket /\ loop_count = 1

\* C9: at distance <= r from the reference point (exactly r included) the packet
\* is U000L000; at any greater distance it is the directional encoding of
\* (dx, dy): direction letters by sign, fields worth |dy| and |dx|.
C9_DeadzoneBoundary ==
    (pc = "send" /\ EyePresent) =>
        IF EyeDx * EyeDx + EyeDy * EyeDy <= deadzone_pixels * deadzone_pixels
        THEN packet = InZonePacket
        ELSE CarriesOffset(packet, IF EyeDy <= 0 THEN "U" ELSE "D", Abs(EyeDy),
                                   IF EyeDx <= 0 THEN "L" ELSE "R", Abs(EyeDx))

C9_Witness ==
    /\ pc = "send"
    /\ deadzone_pixels = 10
    /\ EyePresent
    /\ EyeDx = 6
    /\ EyeDy = 0 - 8
    /\ packet = InZonePacket

Count(log, set) == Cardinality({i \in 1..Len(log) : log[i] \in set})

TryFailures == {"open_fail", "write_fail", "flush_fail"}
CloseCalls == {"close_ok", "close_fail"}
SerialCalls == {"serial_ok", "serial_fail"}

\* send has returned to the loop body and the next iteration has not started
SendReturned == pc \in {"frame", "publish", "store", "display", "top"} /\ sendEntry # "-"

\* C2 (as claimed): on every shutdown path, if the link is open when the shutdown
\* starts, cleanup issues its write of N000N000 before the link is closed.
C2_NeutralBeforeClose ==
    (linkClosed /\ linkOpenAtShutdown) => neutralAttempted

\* C3: a send whose try block failed makes exactly one reconnect attempt (one
\* close, then at most one serial.Serial, never a second round), a send that did
\* not fail makes none; after a successful reconnect the link is open when send
\* returns; and, whatever the outcomes, send returns to the loop body.
C3_OneReconnectPerFailure ==
    /\ [](/\ pc = "reconnect" =>
                (Count(sendLog, TryFailures) = 1 /\ Count(sendLog, CloseCalls) = 0)
          /\ pc = "reopen" =>
                (sendLog[Len(sendLog)] = "close_ok" /\ Count(sendLog, CloseCalls) = 1
                 /\ Count(sendLog, SerialCalls) = 0)
          /\ SendReturned =>
                /\ Count(sendLog, CloseCalls) = Count(sendLog, TryFailures)
                /\ Count(sendLog, CloseCalls) <= 1
                /\ Count(sendLog, SerialCalls) = Count(sendLog, {"close_ok"})
                /\ Count(sendLog, {"serial_ok"}) = 1 => arduino = "open")
    /\ [][(pc \in SendPcs /\ signals' = signals) => pc' \in SendPcs \cup {"frame"}]_vars

C3_Witness ==
    /\ pc = "frame"
    /\ sendLog = <<"write_ok", "flush_fail", "close_ok", "serial_ok">>
    /\ arduino = "open"

\* C4: once a reconnect attempt has failed the handle is None in every later
\* state: no later step writes to the link or opens it, and every later send
\* makes no serial call and returns to the loop body.
C4_ClosedAfterFailedReconnect ==
    /\ [](reconnectFailed =>
             /\ arduino = "none"
             /\ pc \notin {"reconnect", "reopen"}
             /\ sendEntry = "none" => sendLog = <<>>)
    /\ [][reconnectFailed =>
             /\ arduino' = "none"
             /\ lastWrite' = lastWrite
             /\ (pc = "send" /\ signals' = signals) => pc' = "frame"]_vars

C4_Witness ==
    /\ reconnectFailed
    /\ pc = "frame"
    /\ sendEntry = "none"
    /\ sendLog = <<>>
    /\ loop_count = 3

ReevaluationStep ==
    pc = "sample" /\ lm'.face /\ now - last_visibility_check >= CheckIntervalTicks

\* in the frame of this step the active eye is not visible and the other one is
ActiveLostOtherSeen ==
    LET lost == IF active_eye = "left" THEN ~lm'.left_visible ELSE ~lm'.right_visible
        seen == IF active_eye = "left" THEN lm'.right_visible ELSE lm'.left_visible
    IN  lost /\ seen

\* C11: the selector starts on the left eye; a step changes the active eye if
\* and only if it is a re-evaluation in whose frame the active eye is invalid
\* and the other eye valid, and then it changes to the other eye; and if in
\* every frame with a face left is valid and right is not, the active eye is
\* left in every state.
C11_SelectorRule ==
    /\ active_eye = "left"
    /\ [][(active_eye' # active_eye) <=> (ReevaluationStep /\ ActiveLostOtherSeen)]_vars
    /\ [](lm.face => (lm.left_visible /\ ~lm.right_visible)) => [](active_eye = "left")

C11_Witness ==
    /\ pc = "calc"
    /\ active_eye = "right"
    /\ last_visibility_check = now
    /\ lm.face
    /\ ~lm.left_visible
    /\ lm.right_visible
    /\ eye = lm.right

\* C12 (as claimed): in the iteration in which the active left eye becomes
\* invalid and the right eye becomes valid the selector does not switch.
C12_NoSwitchInSameIteration ==
    [][(/\ pc = "sample"
        /\ active_eye = "left"
        /\ lm.face /\ lm.left_visible /\ ~lm.right_visible
        /\ lm'.face /\ ~lm'.left_visible /\ lm'.right_visible)
       => active_eye' = "left"]_vars

\* C12 (amended): with the left eye active, a call switches to the right eye
\* exactly when its frame has a face with left invalid and right valid and its
\* clock reading is a re-check boundary (now - last_visibility_check >= the
\* interval); in every call before that boundary the active eye is still left,
\* and only a call at a boundary with a face moves last_visibility_check.
C12_SwitchOnlyAtBoundary ==
    [][(pc = "sample" /\ active_eye = "left") =>
          /\ active_eye' = IF /\ lm'.face /\ ~lm'.left_visible /\ lm'.right_visible
                              /\ now - last_visibility_check >= CheckIntervalTicks
                           THEN "right" ELSE "left"
          /\ last_visibility_check' =
                IF lm'.face /\ now - last_visibility_check >= CheckIntervalTicks
                THEN now ELSE last_visibility_check]_vars

C12_Witness ==
    /\ pc = "calc"
    /\ active_eye = "left"
    /\ lm.face
    /\ ~lm.left_visible
    /\ lm.right_visible
    /\ last_visibility_check > 0
    /\ now - last_visibility_check < CheckIntervalTicks
    /\ eye = <<>>

\* C13: after every call the output is the position of the eye that is active
\* after the call if the frame has a face and that eye is valid in it, and
\* absent otherwise; a call between two re-evaluations whose frame has the
\* active eye invalid and the other eye valid keeps the active eye and gives
\* absent, never the other eye's position.
C13_OutputIsActiveEyeOrAbsent ==
    /\ [](pc = "calc" =>
            LET valid == lm.face /\ (IF active_eye = "left" THEN lm.left_visible
                                     ELSE lm.right_visible)
            IN  /\ valid => eye = (IF active_eye = "left" THEN lm.left ELSE lm.right)
                /\ ~valid => eye = <<>>
                /\ sampleKind = "pos" <=> valid)
    /\ [][(/\ pc = "sample"
           /\ now - last_visibility_check < CheckIntervalTicks
           /\ lm'.face
           /\ ActiveLostOtherSeen)
          => (active_eye' = active_eye /\ eye' = <<>>)]_vars

C13_Witness ==
    /\ pc = "calc"
    /\ active_eye = "right"
    /\ lm.face
    /\ lm.left_visible
    /\ ~lm.right_visible
    /\ now - last_visibility_check < CheckIntervalTicks
    /\ eye = <<>>
    /\ sampleKind = "hidden"

\* after a call: the frame has a face, eye e is invalid in it, the other valid
OccludedIn(f, e) ==
    /\ f.face
    /\ IF e = "left" THEN ~f.left_visible /\ f.right_visible
       ELSE ~f.right_visible /\ f.left_visible

CentreIn(f, e) == IF e = "left" THEN f.left ELSE f.right

\* C14: a call at or after last_visibility_check + interval whose frame has a
\* face with the active eye invalid and the other valid switches to the other
\* eye and reports its position; while the frames keep a face with the active
\* eye valid the output is present and the active eye stays; and an occlusion
\* of the active eye that is seen while the clock can still reach the boundary
\* leads to the switch, with a present position, unless a frame ends the
\* occlusion first.
C14_RecoversFromOcclusion ==
    /\ [][(/\ pc = "sample"
           /\ OccludedIn(lm', active_eye)
           /\ now >= last_visibility_check + CheckIntervalTicks)
          => (active_eye' # active_eye /\ eye' = CentreIn(lm', active_eye'))]_vars
    /\ [][(/\ pc = "sample"
           /\ OccludedIn(lm', IF active_eye = "left" THEN "right" ELSE "left"))
          => (active_eye' = active_eye /\ eye' = CentreIn(lm', active_eye))]_vars
    /\ \A e \in {"left", "right"} :
          (/\ pc = "calc"
           /\ active_eye = e
           /\ OccludedIn(lm, e)
           /\ last_visibility_check + CheckIntervalTicks <= MaxTime)
          ~> \/ (active_eye # e /\ pc = "calc" /\ eye = CentreIn(lm, active_eye))
             \/ (pc = "calc" /\ ~OccludedIn(lm, e))

C14_Witness ==
    /\ pc = "calc"
    /\ loop_count >= 3
    /\ active_eye = "right"
    /\ OccludedIn(lm, "left")
    /\ last_visibility_check = now
    /\ now >= Epoch + 2 * CheckIntervalTicks
    /\ eye = lm.right
    /\ sampleKind = "pos"

\* the value the latest read of handler h returned: absent, or an array
ReadIsAbsent(h) == hframe[h] = NoFrame /\ hpixels[h] = Blank
ReadIsPublished(h) == \E k \in published : hpixels[h] = Composed(k)

\* C15: whatever the interleaving of the publishing writer and the reading
\* handlers, a finished read holds nothing or an array equal, in both halves,
\* to one frame that was published; and a read of a slot that was never
\* published to returns nothing.
C15_ReadsAreWholePublishedFrames ==
    /\ [](\A h \in Handlers :
             hpc[h] # "copy2" => ReadIsAbsent(h) \/ ReadIsPublished(h))
    /\ [](\A h \in Handlers : hpc[h] \in {"encode", "write"} => ReadIsPublished(h))
    /\ [][\A h \in Handlers :
             (hpc[h] = "copy" /\ hpc'[h] # "copy" /\ published = {})
                 => (hpc'[h] = "sleep" /\ ReadIsAbsent(h)')]_vars

C15_Witness ==
    /\ published = {1, 2}
    /\ hpc[1] = "write"
    /\ hpixels[1] = Composed(1)
    /\ hpc[2] = "copy2"
    /\ hpixels[2] = <<2, 0>>

\* the frame of the latest completed publish; frames are numbered in the
\* order in which the writer composes them
MostRecent == IF published = {} THEN NoFrame
              ELSE CHOOSE k \in published : \A j \in published : j <= k

Copying == {h \in Handlers : hpc[h] \in {"copy", "copy2"}}

SampleFailed(k) == k \in {"raise", "nocap"}

\* C18: an iteration whose sample was not acquired is carried on as an
\* iteration without a position and does not end the loop: its sample is
\* absent, and from the sample up to the quit check no step of it, other
\* than the arrival of a signal, leaves the loop.
C18_SampleFailureIsNotFatal ==
    /\ [][(pc = "sample" /\ SampleFailed(sampleKind')) => eye' = <<>>]_vars
    /\ [][(/\ pc \in LoopPcs \ {"top", "display"}
           /\ SampleFailed(sampleKind')
           /\ signals' = signals) => pc' \in LoopPcs]_vars

\* the current iteration captured a camera frame and is past its publish
\* step, no signal having cut it short
CapturedAndPastPublish ==
    /\ loop_count > 0
    /\ last_frame = loop_count
    /\ signals = 0
    /\ pc \notin {"sample", "calc", "send", "reconnect", "reopen", "frame", "publish",
                  "store"}

\* C19: every iteration that captured a camera frame publishes its annotated
\* frame, and a slot that holds a frame never becomes empty again.
C19_CapturedFrameIsPublished ==
    /\ [](CapturedAndPastPublish => latest_annotated_frame = loop_count)
    /\ [][latest_annotated_frame # NoFrame => latest_annotated_frame' # NoFrame]_vars

\* C20: however often and from wherever cleanup is called, its body runs at
\* most once in a run, so it writes the neutral packet at most once and closes
\* the link at most once; a call that finds the flag set changes neither the
\* link, nor what was written, nor the eye model, nor the flag.
C20_CleanupRunsAtMostOnce ==
    /\ [](/\ cleanupCount.body <= 1
          /\ cleanupCount.neutral <= 1
          /\ cleanupCount.close <= 1)
    /\ [](cleanup_called <=> cleanupCount.body = 1)
    /\ [][(pc \in {"c_lock", "c_flag"} /\ cleanup_called)
             => /\ arduino' = arduino
                /\ lastWrite' = lastWrite
                /\ eye_model' = eye_model
                /\ cleanup_called'
                /\ cleanupCount' = cleanupCount]_vars

C20_Witness ==
    /\ pc = "exited"
    /\ caller = "del"
    /\ signals = 1
    /\ shutdownCause = "quit"
    /\ cleanupCount = [body |-> 1, neutral |-> 1, close |-> 1]

\* C21: no call of cleanup blocks for ever: the main thread is never left
\* waiting, inside the signal handler's call of cleanup, for the
\* _cleanup_lock that the cleanup it interrupted holds.
C21_CleanupNeverBlocks ==
    pc # "deadlock"

\* C22: once the listener has been stopped no new connection is taken, and
\* after a shutdown signal every stream handler that is in flight comes to
\* leave its streaming loop by itself, whatever its viewer does.
C22_StreamsStopOnShutdown ==
    /\ [][~serving => \A h \in Handlers : hpc[h] = "idle" => hpc'[h] = "idle"]_vars
    /\ (shutdownCause = "signal") ~> (\A h \in Handlers : hpc[h] \in {"idle", "done"})

\* C23: when the eye detection model cannot be created because no camera
\* works, the program never enters the control loop: no iteration is
\* counted, nothing is written to the serial port, not even by a cleanup,
\* and the only thing left to do is to end.
C23_NoLoopWithoutCamera ==
    startup = "failed" =>
        /\ pc \in {"m_finally", "exited"}
        /\ loop_count = 0
        /\ lastWrite = <<>>
        /\ sendLog = <<>>
        /\ ~neutralAttempted

C23_Witness ==
    /\ startup = "failed"
    /\ pc = "exited"
    /\ arduino = "open"
    /\ wifi_enabled

\* C24: the process ends with a status other than 0 exactly when the start
\* failed for want of a camera.
C24_NonZeroExitOnlyAtStartupFailure ==
    pc = "exited" => (exit_status # 0 <=> startup = "failed")

\* C29: when serial.Serial raises in __init__ the controller has no handle,
\* goes on with its initialisation all the same, enters the control loop
\* when the camera is there, and every send of the loop returns without a
\* serial call: nothing is ever written.
C29_FailedOpenIsNotFatal ==
    /\ [](portOpenFailed =>
            /\ arduino = "none"
            /\ lastWrite = <<>>
            /\ sendLog = <<>>
            /\ sendEntry \in {"-", "none"}
            /\ pc \notin {"reconnect", "reopen"}
            /\ pc \in {"m_finally", "exited"} =>
                  (startup = "failed" \/ shutdownCause # "none"))
    /\ [][pc = "s_serial" => (pc' = "s_wifi" /\ startup' = "pending")]_vars
    /\ [][(pc = "s_eye" /\ startup' = "ok") => pc' = "top"]_vars

C29_Witness ==
    /\ portOpenFailed
    /\ startup = "ok"
    /\ loop_count = 2
    /\ pc = "frame"
    /\ sendEntry = "none"
    /\ packet = EncodeDirectional(180, 0 - 140)

\* C25: a poll of the remote peer, whether the peer answers, answers with an
\* error, stays silent until the timeout or the request raises, leaves the
\* serial handle, its open/closed state, the bytes written and the record of
\* the send as they were, and is followed by the iteration's send.
C25_PollLeavesLinkAlone ==
    [][pc = "poll" => (UNCHANGED linkVars /\ pc' \in {"poll", "send"})]_vars

C25_Witness ==
    /\ pollOutcome = "silent"
    /\ Len(pollLog) = 2
    /\ pc = "frame"
    /\ sendEntry = "open"
    /\ sendLog = <<"write_ok", "flush_ok">>
    /\ lastWrite = packet

\* C26: any two successive poll requests that run issues are more than the
\* poll interval of 5 seconds apart, whatever the earlier one's outcome.
C26_OnePollPerInterval ==
    \A i \in 1..Len(pollLog) - 1 : pollLog[i + 1] - pollLog[i] > StatusIntervalTicks

C26_Witness ==
    /\ Len(pollLog) = 3
    /\ pollLog[2] - pollLog[1] = StatusIntervalTicks + 1
    /\ pollOutcome = "silent"
    /\ loop_count = PollIters

\* C27: after a poll that got no response the controller holds the peer to
\* be not reachable: wifi_enabled is false, and a /status response sent from
\* then on says so.
C27_SilentPeerIsNotReachable ==
    /\ [](pollOutcome \in {"silent", "raised"} => ~wifi_enabled)
    /\ [][(pollOutcome \in {"silent", "raised"} /\ status_reply' # status_reply)
             => ~status_reply'.arduino_wifi]_vars

\* C28: no step of an HTTP request handler (stream, test, status) changes the
\* serial handle, its state, the bytes written on it or the record of the
\* send, nor active_eye or last_visibility_check; a handler step changes only
\* the handler's own position and copy, the lock of the frame buffer and the
\* response it sends.  Every change of link or selector state is a step of
\* the control loop's thread.
C28_HandlersLeaveLinkAndSelectorAlone ==
    /\ [][(hpc' # hpc \/ hframe' # hframe \/ hpixels' # hpixels
             \/ status_reply' # status_reply)
            => UNCHANGED <<linkVars, active_eye, last_visibility_check, pc, loop_count,
                           packet, latest_annotated_frame, pixels>>]_vars
    /\ [][(linkVars' # linkVars \/ active_eye' # active_eye
             \/ last_visibility_check' # last_visibility_check)
            => (pc' # pc /\ UNCHANGED <<hpc, hframe, hpixels, status_reply>>)]_vars

C28_Witness ==
    /\ status_reply.sent
    /\ status_reply.arduino_serial
    /\ \E h \in Handlers : hpc[h] = "encode" /\ hframe[h] # NoFrame
    /\ lastWrite = packet
    /\ packet \notin {<<>>, NeutralPacket, InZonePacket}
    /\ active_eye = "right"
    /\ arduino = "open"

WriteCalls == {"write_ok", "write_fail"}

\* C30: a send calls write at most once, and never after the failure: once
\* the try block has raised, neither the close nor the reopen, successful or
\* not, is followed by another write in that send, and the bytes on the link
\* stay as they were until a later send writes its own packet.
C30_FailedPacketIsDropped ==
    /\ [](/\ Count(sendLog, WriteCalls) <= 1
          /\ \A i \in 1..Len(sendLog) : \A j \in (i + 1)..Len(sendLog) :
                sendLog[i] \in TryFailures \cup CloseCalls \cup SerialCalls
                    => sendLog[j] \notin WriteCalls \cup {"flush_ok", "flush_fail"})
    /\ [][(pc \in {"reconnect", "reopen"}) => UNCHANGED lastWrite]_vars
    /\ [][Count(sendLog', {"write_ok"}) > Count(sendLog, {"write_ok"})
            => (pc = "send" /\ lastWrite' = packet)]_vars

C30_Witness ==
    /\ pc = "frame"
    /\ sendLog = <<"write_fail", "close_ok", "serial_ok">>
    /\ arduino = "open"
    /\ lastWrite # <<>>
    /\ lastWrite # packet
    /\ loop_count = 1

\* C31: any two changes of the active eye are at least
\* visibility_check_interval apart by the clock readings of the calls that
\* made them, whatever the frames show and whenever the calls are made.
C31_SwitchesAreAnIntervalApart ==
    \A i \in 1..Len(switchLog) - 1 :
        switchLog[i + 1] - switchLog[i] >= CheckIntervalTicks

C31_Witness ==
    /\ Len(switchLog) = 3
    /\ switchLog[2] - switchLog[1] = CheckIntervalTicks
    /\ switchLog[3] - switchLog[2] > CheckIntervalTicks
    /\ active_eye = "right"

\* C36: a call of get_eye_location whose frame has no face, whose read fails
\* or which raises leaves active_eye and last_visibility_check as they were;
\* last_visibility_check moves, to the call's clock reading, only in a call
\* whose frame has a face and whose reading is a re-check boundary.
C36_NoFaceLeavesSelectorAlone ==
    /\ [][(pc = "sample" /\ ~lm'.face)
            => UNCHANGED <<active_eye, last_visibility_check>>]_vars
    /\ [][last_visibility_check' # last_visibility_check
            => /\ lm'.face
               /\ now - last_visibility_check >= CheckIntervalTicks
               /\ last_visibility_check' = now]_vars

C36_Witness ==
    /\ pc = "calc"
    /\ sampleKind = "noface"
    /\ ~lm.face
    /\ active_eye = "right"
    /\ last_visibility_check > 0
    /\ now - last_visibility_check > CheckIntervalTicks
    /\ eye = <<>>

\* C37: a call that changes the active eye returns a position, that of the
\* newly active eye on the landmarks of the same frame.
C37_SwitchGivesPosition ==
    [][active_eye' # active_eye
        => /\ eye' # <<>>
           /\ eye' = EyeCentre(lm', active_eye')
           /\ sampleKind' = "pos"]_vars

C37_Witness ==
    /\ pc = "calc"
    /\ Len(switchLog) = 2
    /\ switchLog[2] = now
    /\ active_eye = "left"
    /\ lm.face /\ lm.left_visible /\ ~lm.right_visible
    /\ eye = lm.left

\* C38: for a radius >= 0 the packet of an iteration is N000N000 if and only
\* if the position is absent, U000L000 if and only if the position is present
\* and at distance <= radius from the reference point, and for a present
\* position farther away it is neither of the two.
C38_PacketClassesAreExact ==
    (pc = "send" /\ deadzone_pixels >= 0) =>
        LET inside == EyePresent /\ EyeDx * EyeDx + EyeDy * EyeDy
                                       <= deadzone_pixels * deadzone_pixels
        IN  /\ packet = NeutralPacket <=> ~EyePresent
            /\ packet = InZonePacket <=> inside
            /\ (EyePresent /\ ~inside) => packet \notin {NeutralPacket, InZonePacket}

C38_Witness ==
    /\ pc = "send"
    /\ deadzone_pixels = 0
    /\ EyePresent
    /\ EyeDx = 0
    /\ EyeDy = 0 - 1
    /\ packet = <<"U", "0", "0", "1", "L", "0", "0", "0">>

\* C33: _capture_loop leaves its loop only with max_consecutive_errors errors
\* counted since the latest successful get_eye_location, or because running
\* is false; the step that counts the tenth error ends the loop, a loop that
\* finds running false ends, the counter is the number of errors since the
\* latest success, and with fewer errors in a row the loop goes on.
C33_CaptureLoopStops ==
    /\ [](/\ consecutive_errors = errorRun
          /\ cpc = "ended" <=> stopCause # "none"
          /\ stopCause = "errors" => errorRun = max_consecutive_errors
          /\ stopCause = "stopped" => (~running /\ errorRun < max_consecutive_errors)
          /\ cpc # "ended" => errorRun < max_consecutive_errors)
    /\ [][(cpc = "top" /\ ~running) => cpc' = "ended"]_vars
    /\ [][(cpc' = "ended" /\ cpc # "ended")
            => (errorRun' = max_consecutive_errors \/ (cpc = "top" /\ ~running))]_vars

C33_Witness ==
    /\ cpc = "ended"
    /\ stopCause = "errors"
    /\ running
    /\ frame_count = max_consecutive_errors + 2

\* C34: once a cleanup call has set _cleanup_called, its body runs to its
\* end before the process ends, a signal delivered meanwhile notwithstanding:
\* the neutral packet has been written if the link was open, and the handle
\* has been closed and released by cleanup unless close() itself kept failing.
C34_CleanupBodyCompletes ==
    (cleanup_called /\ pc = "exited" /\ closeAttempt < CLOSE_ATTEMPTS) =>
        /\ linkOpenAtShutdown => neutralAttempted
        /\ arduino = "none"

\* C35: once cleanup has issued its write of N000N000, nothing more is
\* written to the serial link and no send is attempted: the loop does not
\* run again, whether cleanup was called from run's finally or from a signal
\* handler that interrupted an iteration or a send.
C35_NeutralIsLastWrite ==
    /\ [](neutralAttempted => pc \in CleanupPcs \cup {"exited", "deadlock"})
    /\ [][neutralAttempted => UNCHANGED <<lastWrite, sendLog, sendEntry>>]_vars

C35_Witness ==
    /\ pc = "exited"
    /\ caller = "handler"
    /\ neutralAttempted
    /\ lastWrite = NeutralPacket
    /\ sendLog = <<"write_ok", "flush_fail">>
    /\ packet \notin {<<>>, NeutralPacket, InZonePacket}
    /\ loop_count = 2

\* C32: in every iteration whose clock reading is more than the poll
\* interval past the last poll time, run issues one status request to the
\* peer, whatever the startup probe and the earlier polls found.
C32_PollIssuedWheneverDue ==
    [][(pc = "poll" /\ pc' = "send")
        => (Len(pollLog') = Len(pollLog) + 1 /\ pollLog'[Len(pollLog')] = current_time)]_vars

====
